---- MODULE Spec2Model ----
(***************************************************************************)
(* The typed CRUD gateway of the TaylorDB full-stack template:             *)
(*   - the Express app (apps/server/index.ts): health route, tRPC banner,  *)
(*     tRPC middleware;                                                    *)
(*   - the request context factory (apps/server/trpc.ts);                  *)
(*   - the procedure routers (router.ts, posts router, submitUserData);    *)
(*   - the upload router (multer limits + metadata handler).               *)
(* A request is followed through its steps; steps of different requests    *)
(* interleave freely, a handler body (synchronous code) is one step.       *)
(***************************************************************************)
EXTENDS Integers, Sequences, FiniteSets, TLC

VARIABLES
    req,            \* request id -> the request and how far it got
    clients,        \* external-store clients built by createQueryBuilder, in order
    posts,          \* posts router: the in-memory posts array
    nextId,         \* posts router: the id counter
    submissions,    \* submitUserData router: the in-memory submissions array
    submissionsNextId, \* submitUserData router: its id counter
    clock,          \* logical time, read by `new Date()`
    up,             \* the upload router's current request
    form,           \* the browser: the FileUploadExample form and its handleSubmit
    link,           \* the browser: the tRPC client's links and what they sent
    qb,             \* the query builder: the statements built, checked and executed
    att,            \* the Attachment objects constructed and the values read from them
    hmr,            \* the DevServerHMRPlugin: its events, the tries counter, what it sent
    sse,            \* the dev server's /sse-logs streams and what was written to them
    vite,           \* the dev server's host-validation middleware: requests answered
    tool            \* the FileProtectionPlugin: tool calls seen by tool.execute.before

\* The variables outside the server process.
outside == <<form, link, qb, att, hmr, sse, vite, tool>>

vars == <<req, clients, posts, nextId, submissions, submissionsNextId, clock, up,
          form, link, qb, att, hmr, sse, vite, tool>>

(***************************************************************************)
(* Bounds of the model.                                                    *)
(***************************************************************************)
MaxReqs == 2        \* requests followed in one behaviour
MaxBatch == 11      \* largest upload batch tried (one more than the ceiling)
MaxUploads == 2     \* upload requests answered in one behaviour
MaxOps == 3         \* operations the browser issues through the tRPC client
MaxSubmits == 2     \* times the user submits the form
MaxRows == 3        \* rows the external table may hold
MaxAttachments == 2 \* Attachment objects constructed
MaxReads == 2       \* calls of toColumnValue
MaxEvents == 3      \* events delivered to the DevServerHMRPlugin
MaxChats == 1       \* chat messages seen by the DevServerHMRPlugin
MaxStreams == 2     \* requests to /sse-logs
MaxLogs == 2        \* console calls in the dev server process
MaxHostReqs == 2    \* requests answered by the host-validation middleware
MaxToolCalls == 2   \* tool calls seen by the FileProtectionPlugin

ReqIds == 1..MaxReqs

(***************************************************************************)
(* JavaScript values.  An optional value is a sequence of length <= 1:     *)
(* <<>> is `undefined`, <<v>> is the value v.                              *)
(***************************************************************************)
Undefined == <<>>
Some(v) == <<v>>
IsDefined(o) == Len(o) = 1
Get(o) == o[1]

(***************************************************************************)
(* Process configuration (process.env), read once and never written.       *)
(***************************************************************************)
TAYLORDB_BASE_URL == "env:TAYLORDB_BASE_URL"
TAYLORDB_SERVER_ID == "env:TAYLORDB_SERVER_ID"
TAYLORDB_API_TOKEN == "env:TAYLORDB_API_TOKEN"

\* The module-level client of taylordb/query-builder.ts, bound to the
\* default process token.
queryBuilder ==
    [baseUrl |-> TAYLORDB_BASE_URL, baseId |-> TAYLORDB_SERVER_ID,
     apiKey |-> Some(TAYLORDB_API_TOKEN)]

\* createQueryBuilder(options): the client keeps the options it was given.
createQueryBuilder(baseUrl, baseId, apiKey) ==
    [baseUrl |-> baseUrl, baseId |-> baseId, apiKey |-> apiKey]

(***************************************************************************)
(* Inbound requests.                                                       *)
(***************************************************************************)
\* Values of the app_access_token cookie a caller may send: none, the empty
\* string, or one of two tokens.
Tokens == {"tokA", "tokB"}
CookieTokens == {Undefined, Some("")} \cup {Some(t) : t \in Tokens}

\* req.cookies as a handler sees it: `parsed` is FALSE when req.cookies is
\* undefined, else app_access_token is the cookie's value (or undefined).
NoCookies == [parsed |-> FALSE, app_access_token |-> Undefined]
CookiesWith(tok) == [parsed |-> TRUE, app_access_token |-> tok]

(***************************************************************************)
(* Procedure inputs.  Strings are TLA+ strings except e-mail addresses,    *)
(* which are sequences of characters so that their shape can be checked.   *)
(***************************************************************************)
TitleMax == 200
LongTitle ==
    "0123456789012345678901234567890123456789012345678901234567890123456789012345678901234567890123456789012345678901234567890123456789012345678901234567890123456789012345678901234567890123456789012345678901234567890"

Emails == {<<>>, <<"j", "@", "x", ".", "i", "o">>, <<"j", "x", ".", "i", "o">>}

\* File entries as the client passes them to submitUserData.submit.
FileRef(n) == [originalName |-> <<"file", n>>, mimeType |-> "text/plain", size |-> n]

HelloInputs == {[name |-> Undefined], [name |-> Some("Ann")]}
PostCreateInputs ==
    {[title |-> "My Title", content |-> "My Content", authorId |-> 1, published |-> p] :
        p \in {Undefined, Some(TRUE)}}
    \cup {[title |-> t, content |-> "My Content", authorId |-> 1, published |-> Undefined] :
        t \in {"", LongTitle}}
    \cup {[title |-> "My Title", content |-> "", authorId |-> 1, published |-> Undefined]}
PostIdInputs == {[id |-> i] : i \in {1, 2}}
PostUpdateInputs ==
    {[id |-> 1, title |-> Some("New Title"), content |-> Undefined, published |-> Some(FALSE)],
     [id |-> 2, title |-> Undefined, content |-> Some("New Content"), published |-> Undefined],
     [id |-> 2, title |-> Some(""), content |-> Undefined, published |-> Undefined]}
SubmitInputs ==
    {[name |-> "Jane", email |-> e, files |-> <<FileRef(1), FileRef(2)>>] : e \in Emails}
    \cup {[name |-> "", email |-> <<"j", "@", "x", ".", "i", "o">>, files |-> <<>>]}
NoInput == [none |-> TRUE]

\* The procedures of appRouter that this model follows.
Procedures ==
    {"hello", "posts.getById", "posts.create", "posts.update", "posts.delete",
     "posts.publish", "submitUserData.submit", "submitUserData.getAll"}
Queries == {"hello", "posts.getById", "submitUserData.getAll"}
Mutations == Procedures \ Queries

InputsOf(proc) ==
    CASE proc = "hello" -> HelloInputs
      [] proc \in {"posts.getById", "posts.delete", "posts.publish"} -> PostIdInputs
      [] proc = "posts.create" -> PostCreateInputs
      [] proc = "posts.update" -> PostUpdateInputs
      [] proc = "submitUserData.submit" -> SubmitInputs
      [] OTHER -> {NoInput}

\* URLs as path segments: /api/health, /api/trpc, /api/trpc/<procedure>.
HealthUrl == <<"api", "health">>
TrpcUrl == <<"api", "trpc">>
ProcUrl(proc) == <<"api", "trpc", proc>>
Urls == {HealthUrl, TrpcUrl} \cup {ProcUrl(p) : p \in Procedures \cup {"nope"}}

ProcOf(url) == url[3]

\* Every HTTP request tried: a URL, the cookie sent, the procedure input.
Requests ==
    UNION {{[url |-> u, cookie |-> c, input |-> i] :
                c \in CookieTokens,
                i \in (IF Len(u) = 3 THEN InputsOf(ProcOf(u)) ELSE {NoInput})} :
           u \in Urls}

(***************************************************************************)
(* The state of one request.                                               *)
(*   st      Idle (not yet arrived), Received, Context (context created),  *)
(*           Validated (input parsed), Completed, Failed                   *)
(*   cookies req.cookies as createContext reads it                         *)
(*   ctx     the context: the index in `clients` of its queryBuilder       *)
(*   parsed  the input after the input parser (defaults filled in)         *)
(*   resp    what the caller gets                                          *)
(*   runs    how many times a procedure handler ran for this request       *)
(*   used    the contexts the handler ran with                             *)
(*   trail   the steps the request went through, in order                  *)
(***************************************************************************)
NoResp == [kind |-> "none"]
Result(data) == [kind |-> "result", data |-> data]
\* A failed tRPC call: the error shape carries the TRPCError code and message.
TrpcError(code, message) == [kind |-> "error", code |-> code, message |-> message]
\* A plain Express JSON answer.
Json(status, body) == [kind |-> "json", status |-> status, body |-> body]

IdleReq ==
    [st |-> "Idle", url |-> <<>>, cookie |-> Undefined, cookies |-> NoCookies,
     input |-> NoInput, parsed |-> NoInput, ctx |-> Undefined, resp |-> NoResp,
     runs |-> 0, used |-> {}, trail |-> <<>>]

Init ==
    /\ req = [r \in ReqIds |-> IdleReq]
    /\ clients = <<>>
    /\ posts = <<[id |-> 1, title |-> "Hello World",
                  content |-> "This is my first post!", authorId |-> 1,
                  published |-> TRUE, createdAt |-> 0]>>
    /\ nextId = 2
    /\ submissions = <<>>
    /\ submissionsNextId = 1
    /\ clock = 1
    /\ up = [st |-> "Idle", batch |-> <<>>, files |-> <<>>, resp |-> NoResp, runs |-> 0]
    /\ form = [st |-> "Editing", name |-> "", email |-> <<>>, files |-> <<>>,
               isLoading |-> FALSE, error |-> Undefined, runs |-> <<>>, delivered |-> {}]
    /\ link = [build |-> "none", issued |-> <<>>, pending |-> <<>>, sent |-> <<>>]
    /\ qb = [st |-> "Idle", stmt |-> [op |-> "none", status |-> Undefined, where |-> <<>>],
             called |-> FALSE, flagged |-> FALSE, error |-> Undefined,
             before |-> <<>>,
             rows |-> <<[status |-> "Active"], [status |-> "Inactive"]>>]
    /\ att = [objects |-> <<>>, returned |-> <<>>]
    /\ hmr = [tries |-> <<>>,
              ev |-> [e \in 1..MaxEvents |->
                        [st |-> "None", type |-> "", sessionID |-> "", exitCode |-> <<>>]],
              chats |-> 0,
              sent |-> <<>>]
    /\ sse = [clients |-> {},
              conn |-> [c \in 1..MaxStreams |-> "None"],
              written |-> [c \in 1..MaxStreams |-> <<>>],
              logs |-> 0]
    /\ vite = <<>>
    /\ tool = <<>>

Terminal(r) == req[r].st \in {"Completed", "Failed"}

\* One step of request r: its record changes as given, the trail grows.
Step(r, st, changes) ==
    req' = [req EXCEPT ![r] =
                [f \in DOMAIN req[r] |->
                    IF f = "st" THEN st
                    ELSE IF f \in DOMAIN changes THEN changes[f]
                    ELSE IF f = "trail" THEN Append(req[r].trail, st)
                    ELSE req[r][f]]]

\* Request r reaches the server; requests are numbered in arrival order.
Arrive(r, rq, cookies) ==
    /\ req[r].st = "Idle"
    /\ IF r = 1 THEN TRUE ELSE req[r - 1].st # "Idle"
    /\ Step(r, "Received", [url |-> rq.url, cookie |-> rq.cookie,
                            cookies |-> cookies, input |-> rq.input])

\* Request r arrives from a caller that is not followed.
Receive(r, rq, cookies) ==
    /\ Arrive(r, rq, cookies)
    /\ UNCHANGED <<clients, posts, nextId, submissions, submissionsNextId, clock, up>>
    /\ UNCHANGED outside

(***************************************************************************)
(* apps/server/index.ts: the routes of the Express app, in registration    *)
(* order.                                                                  *)
(***************************************************************************)
\* app.get("/api/health", ...) matches exactly that path.
IsHealth(url) == url = HealthUrl
\* app.use("/api/trpc", ...) matches the mount path and everything below it;
\* below the mount, req.path is "/" exactly when nothing follows the mount.
IsTrpcMount(url) == Len(url) >= 2 /\ SubSeq(url, 1, 2) = TrpcUrl
IsTrpcRoot(url) == IsTrpcMount(url) /\ Len(url) = 2
IsTrpcCall(url) == IsTrpcMount(url) /\ Len(url) > 2

\* Mutant: the health route sits behind the credential check.
HealthBehindAuth(r) ==
    /\ req[r].st = "Received"
    /\ IsHealth(req[r].url)
    /\ IF ~req[r].cookies.parsed \/ ~IsDefined(req[r].cookies.app_access_token)
       THEN Step(r, "Failed", [resp |-> Json(401, [error |-> "Unauthorized"])])
       ELSE Step(r, "Completed",
                 [resp |-> Json(200, [status |-> "ok", timestamp |-> clock])])
    /\ clock' = clock + 1
    /\ UNCHANGED <<clients, posts, nextId, submissions, submissionsNextId, up>>
    /\ UNCHANGED outside

\* GET /api/health: no context, no client, a status and a timestamp.
Health(r) ==
    /\ req[r].st = "Received"
    /\ IsHealth(req[r].url)
    /\ Step(r, "Completed",
            [resp |-> Json(200, [status |-> "ok", timestamp |-> clock])])
    /\ clock' = clock + 1
    /\ UNCHANGED <<clients, posts, nextId, submissions, submissionsNextId, up>>
    /\ UNCHANGED outside

\* /api/trpc itself: the first handler of the mount answers with a banner
\* and does not call next().
TrpcRoot(r) ==
    /\ req[r].st = "Received"
    /\ IsTrpcRoot(req[r].url)
    /\ Step(r, "Completed",
            [resp |-> Json(200, [message |-> "TaylorDB tRPC server is running!",
                                 timestamp |-> clock])])
    /\ clock' = clock + 1
    /\ UNCHANGED <<clients, posts, nextId, submissions, submissionsNextId, up>>
    /\ UNCHANGED outside

(***************************************************************************)
(* apps/server/trpc.ts: the request context factory.                       *)
(***************************************************************************)
\* req.cookies?.app_access_token
appAccessToken(cookies) ==
    IF cookies.parsed THEN cookies.app_access_token ELSE Undefined

\* Mutant: only `undefined` is rejected, the empty string passes.
FalsyUndefinedOnly(o) == ~IsDefined(o)

\* !value for an optional string: undefined and "" are falsy.
Falsy(o) == ~IsDefined(o) \/ Get(o) = ""

UnauthorizedMessage == "Unauthorized: app_access_token cookie is required"

\* Mutant: a client is kept per token and reused by later requests.
createContextCached(r) ==
    /\ req[r].st = "Received"
    /\ IsTrpcCall(req[r].url)
    /\ LET tok == appAccessToken(req[r].cookies)
           same == {i \in 1..Len(clients) : clients[i].qb.apiKey = tok}
       IN
        IF Falsy(tok)
        THEN /\ Step(r, "Failed",
                     [resp |-> TrpcError("INTERNAL_SERVER_ERROR", UnauthorizedMessage)])
             /\ UNCHANGED clients
        ELSE IF same # {}
        THEN /\ Step(r, "Context", [ctx |-> Some(CHOOSE i \in same : TRUE)])
             /\ UNCHANGED clients
        ELSE /\ clients' = Append(clients,
                    [owner |-> r,
                     qb |-> createQueryBuilder(TAYLORDB_BASE_URL, TAYLORDB_SERVER_ID, tok)])
             /\ Step(r, "Context", [ctx |-> Some(Len(clients) + 1)])
    /\ UNCHANGED <<posts, nextId, submissions, submissionsNextId, clock, up>>
    /\ UNCHANGED outside

\* createContext({req, res}), called by the tRPC middleware once per request
\* before any procedure.  A throw becomes the call's error.
createContext(r) ==
    /\ req[r].st = "Received"
    /\ IsTrpcCall(req[r].url)
    /\ LET tok == appAccessToken(req[r].cookies) IN
        IF Falsy(tok)
        THEN /\ Step(r, "Failed",
                     [resp |-> TrpcError("INTERNAL_SERVER_ERROR", UnauthorizedMessage)])
             /\ UNCHANGED clients
        ELSE /\ clients' = Append(clients,
                    [owner |-> r,
                     qb |-> createQueryBuilder(TAYLORDB_BASE_URL, TAYLORDB_SERVER_ID, tok)])
             /\ Step(r, "Context", [ctx |-> Some(Len(clients) + 1)])
    /\ UNCHANGED <<posts, nextId, submissions, submissionsNextId, clock, up>>
    /\ UNCHANGED outside

(***************************************************************************)
(* Input contracts (the zod schemas of the procedures).                    *)
(***************************************************************************)
\* z.string().email(): one "@", a non-empty local part, a dotted domain
\* with non-empty labels and a top-level label of at least two characters.
IsEmail(e) ==
    \E a \in 1..Len(e) :
        /\ e[a] = "@"
        /\ \A k \in 1..Len(e) : e[k] = "@" => k = a
        /\ a > 1
        /\ e[1] # "." /\ e[a - 1] # "."
        /\ a < Len(e) /\ e[a + 1] # "."
        /\ \A k \in 1..(Len(e) - 1) : ~(e[k] = "." /\ e[k + 1] = ".")
        /\ \E d \in (a + 2)..(Len(e) - 2) :
              e[d] = "." /\ \A k \in (d + 1)..Len(e) : e[k] # "."

\* postsRouter.create: title z.string().min(1).max(200), content
\* z.string().min(1).
validPostsCreate(input) ==
    /\ Len(input.title) >= 1 /\ Len(input.title) <= TitleMax
    /\ Len(input.content) >= 1

\* submitUserDataRouter.submit: name z.string().min(1), email
\* z.string().email().
validSubmit(input) ==
    /\ Len(input.name) >= 1
    /\ IsEmail(input.email)

\* postsRouter.update: title z.string().min(1).max(200).optional(), content
\* z.string().min(1).optional().
validPostsUpdate(input) ==
    /\ IsDefined(input.title) =>
          Len(Get(input.title)) >= 1 /\ Len(Get(input.title)) <= TitleMax
    /\ IsDefined(input.content) => Len(Get(input.content)) >= 1

\* Does the input satisfy the procedure's .input(...) schema?
ValidInput(proc, input) ==
    CASE proc = "posts.create" -> validPostsCreate(input)
      [] proc = "posts.update" -> validPostsUpdate(input)
      [] proc = "submitUserData.submit" -> validSubmit(input)
      [] OTHER -> TRUE

\* The value the schema hands to the handler: defaults are filled in.
ParsedInput(proc, input) ==
    IF proc = "posts.create"
    THEN [input EXCEPT !.published =
              IF IsDefined(input.published) THEN input.published ELSE Some(FALSE)]
    ELSE input

\* Mutant: the input parser is skipped, every input reaches the handler.
parseInputUnchecked(r) ==
    /\ req[r].st = "Context"
    /\ LET proc == ProcOf(req[r].url) IN
        IF proc \notin Procedures
        THEN Step(r, "Failed",
                  [resp |-> TrpcError("NOT_FOUND", "No procedure found on path")])
        ELSE Step(r, "Validated", [parsed |-> ParsedInput(proc, req[r].input)])
    /\ UNCHANGED <<clients, posts, nextId, submissions, submissionsNextId, clock, up>>
    /\ UNCHANGED outside

\* The tRPC call of request r, after its context exists: look the procedure
\* up by path, then run its input parser.  The handler is not called here.
parseInput(r) ==
    /\ req[r].st = "Context"
    /\ LET proc == ProcOf(req[r].url) IN
        IF proc \notin Procedures
        THEN Step(r, "Failed",
                  [resp |-> TrpcError("NOT_FOUND", "No procedure found on path")])
        ELSE IF ~ValidInput(proc, req[r].input)
        THEN Step(r, "Failed", [resp |-> TrpcError("BAD_REQUEST", "Input validation failed")])
        ELSE Step(r, "Validated", [parsed |-> ParsedInput(proc, req[r].input)])
    /\ UNCHANGED <<clients, posts, nextId, submissions, submissionsNextId, clock, up>>
    /\ UNCHANGED outside

(***************************************************************************)
(* Procedure handlers.  A handler runs once the input is validated; what   *)
(* it returns is the call's result, what it throws is the call's error.    *)
(***************************************************************************)
Thrown(message) == TrpcError("INTERNAL_SERVER_ERROR", message)

\* Mutant: a thrown error is swallowed and the call reported as completed.
FinishSwallow(r, resp) ==
    Step(r, "Completed",
         [resp |-> resp, runs |-> req[r].runs + 1,
          used |-> req[r].used \cup {Get(req[r].ctx)},
          trail |-> req[r].trail \o <<"Dispatched", "Completed">>])

\* Mutant: a call whose handler threw is left to be dispatched again.
FinishRetry(r, resp) ==
    LET st == IF resp.kind = "error" /\ req[r].runs < 1 THEN "Validated"
              ELSE IF resp.kind = "error" THEN "Failed" ELSE "Completed" IN
    Step(r, st,
         [resp |-> IF st = "Validated" THEN NoResp ELSE resp,
          runs |-> req[r].runs + 1,
          used |-> req[r].used \cup {Get(req[r].ctx)},
          trail |-> IF st = "Validated" THEN req[r].trail
                    ELSE req[r].trail \o <<"Dispatched", st>>])

\* The handler of request r ran with its context and ended with resp.
Finish(r, resp) ==
    LET st == IF resp.kind = "error" THEN "Failed" ELSE "Completed" IN
    Step(r, st,
         [resp |-> resp, runs |-> req[r].runs + 1,
          used |-> req[r].used \cup {Get(req[r].ctx)},
          trail |-> req[r].trail \o <<"Dispatched", st>>])

Ready(r, proc) == req[r].st = "Validated" /\ ProcOf(req[r].url) = proc

\* appRouter.hello
hello(r) ==
    /\ Ready(r, "hello")
    /\ LET name == req[r].parsed.name IN
        Finish(r, Result([message |-> <<"Hello ", IF IsDefined(name) THEN Get(name) ELSE "World", "!">>,
                          timestamp |-> clock]))
    /\ clock' = clock + 1
    /\ UNCHANGED <<clients, posts, nextId, submissions, submissionsNextId, up>>
    /\ UNCHANGED outside

\* posts.findIndex((p) => p.id === id), 0 when there is none.
findIndex(ps, id) ==
    IF \E i \in 1..Len(ps) : ps[i].id = id
    THEN CHOOSE i \in 1..Len(ps) : ps[i].id = id /\ \A j \in 1..(i - 1) : ps[j].id # id
    ELSE 0

\* postsRouter.getById
postsGetById(r) ==
    /\ Ready(r, "posts.getById")
    /\ LET i == findIndex(posts, req[r].parsed.id) IN
        Finish(r, IF i = 0 THEN Thrown("Post not found") ELSE Result(posts[i]))
    /\ UNCHANGED <<clients, posts, nextId, submissions, submissionsNextId, clock, up>>
    /\ UNCHANGED outside

\* Mutant: the id of a new post is the length of the array plus one.
postsCreateReusingIds(r) ==
    /\ Ready(r, "posts.create")
    /\ LET input == req[r].parsed
           newPost == [id |-> Len(posts) + 1, title |-> input.title,
                       content |-> input.content, authorId |-> input.authorId,
                       published |-> Get(input.published), createdAt |-> clock]
       IN /\ nextId' = nextId + 1
          /\ posts' = Append(posts, newPost)
          /\ Finish(r, Result(newPost))
    /\ clock' = clock + 1
    /\ UNCHANGED <<clients, submissions, submissionsNextId, up>>
    /\ UNCHANGED outside

\* postsRouter.create
postsCreate(r) ==
    /\ Ready(r, "posts.create")
    /\ LET input == req[r].parsed
           newPost == [id |-> nextId, title |-> input.title, content |-> input.content,
                       authorId |-> input.authorId, published |-> Get(input.published),
                       createdAt |-> clock]
       IN /\ nextId' = nextId + 1
          /\ posts' = Append(posts, newPost)
          /\ Finish(r, Result(newPost))
    /\ clock' = clock + 1
    /\ UNCHANGED <<clients, submissions, submissionsNextId, up>>
    /\ UNCHANGED outside

\* if (value) for an optional string: defined and not "".
Truthy(o) == IsDefined(o) /\ Get(o) # ""

\* Mutant: published is assigned only when it is truthy.
updatedUnlessFalse(post, input) ==
    [post EXCEPT
        !.title = IF Truthy(input.title) THEN Get(input.title) ELSE @,
        !.content = IF Truthy(input.content) THEN Get(input.content) ELSE @,
        !.published = IF IsDefined(input.published) /\ Get(input.published)
                      THEN TRUE ELSE @]

\* The assignments of postsRouter.update to the post it found.
updated(post, input) ==
    [post EXCEPT
        !.title = IF Truthy(input.title) THEN Get(input.title) ELSE @,
        !.content = IF Truthy(input.content) THEN Get(input.content) ELSE @,
        !.published = IF IsDefined(input.published) THEN Get(input.published) ELSE @]

\* Mutant: an update of a missing post inserts it (an upsert).
postsUpdateUpsert(r) ==
    /\ Ready(r, "posts.update")
    /\ LET input == req[r].parsed
           i == findIndex(posts, input.id)
           blank == [id |-> nextId, title |-> "", content |-> "", authorId |-> 0,
                     published |-> FALSE, createdAt |-> clock]
       IN
        IF i = 0
        THEN /\ posts' = Append(posts, updated(blank, input))
             /\ nextId' = nextId + 1
             /\ Finish(r, Result(updated(blank, input)))
        ELSE /\ posts' = [posts EXCEPT ![i] = updated(posts[i], input)]
             /\ nextId' = nextId
             /\ Finish(r, Result(updated(posts[i], input)))
    /\ UNCHANGED <<clients, submissions, submissionsNextId, clock, up>>
    /\ UNCHANGED outside

\* postsRouter.update: the post is found first, a miss throws before any
\* assignment.
postsUpdate(r) ==
    /\ Ready(r, "posts.update")
    /\ LET input == req[r].parsed
           i == findIndex(posts, input.id)
       IN
        IF i = 0
        THEN Finish(r, Thrown("Post not found")) /\ UNCHANGED posts
        ELSE /\ posts' = [posts EXCEPT ![i] = updated(posts[i], input)]
             /\ Finish(r, Result(updated(posts[i], input)))
    /\ UNCHANGED <<clients, nextId, submissions, submissionsNextId, clock, up>>
    /\ UNCHANGED outside

\* postsRouter.publish
postsPublish(r) ==
    /\ Ready(r, "posts.publish")
    /\ LET i == findIndex(posts, req[r].parsed.id) IN
        IF i = 0
        THEN Finish(r, Thrown("Post not found")) /\ UNCHANGED posts
        ELSE /\ posts' = [posts EXCEPT ![i].published = TRUE]
             /\ Finish(r, Result([posts[i] EXCEPT !.published = TRUE]))
    /\ UNCHANGED <<clients, nextId, submissions, submissionsNextId, clock, up>>
    /\ UNCHANGED outside

\* posts.splice(index, 1)
\* Mutant: the first post is removed, whichever was found.
spliceFirst(ps, i) == Tail(ps)

splice(ps, i) == SubSeq(ps, 1, i - 1) \o SubSeq(ps, i + 1, Len(ps))

\* postsRouter.delete
postsDelete(r) ==
    /\ Ready(r, "posts.delete")
    /\ LET i == findIndex(posts, req[r].parsed.id) IN
        IF i = 0
        THEN Finish(r, Thrown("Post not found")) /\ UNCHANGED posts
        ELSE posts' = splice(posts, i) /\ Finish(r, Result(posts[i]))
    /\ UNCHANGED <<clients, nextId, submissions, submissionsNextId, clock, up>>
    /\ UNCHANGED outside

\* Mutant: the new submission is put in front of the others.
submitUnshift(r) ==
    /\ Ready(r, "submitUserData.submit")
    /\ LET input == req[r].parsed
           submission == [id |-> submissionsNextId, name |-> input.name,
                          email |-> input.email, files |-> input.files,
                          submittedAt |-> clock]
       IN /\ submissionsNextId' = submissionsNextId + 1
          /\ submissions' = <<submission>> \o submissions
          /\ Finish(r, Result(submission))
    /\ clock' = clock + 1
    /\ UNCHANGED <<clients, posts, nextId, up>>
    /\ UNCHANGED outside

\* submitUserDataRouter.submit
submit(r) ==
    /\ Ready(r, "submitUserData.submit")
    /\ LET input == req[r].parsed
           submission == [id |-> submissionsNextId, name |-> input.name,
                          email |-> input.email, files |-> input.files,
                          submittedAt |-> clock]
       IN /\ submissionsNextId' = submissionsNextId + 1
          /\ submissions' = Append(submissions, submission)
          /\ Finish(r, Result(submission))
    /\ clock' = clock + 1
    /\ UNCHANGED <<clients, posts, nextId, up>>
    /\ UNCHANGED outside

\* submitUserDataRouter.getAll
submitGetAll(r) ==
    /\ Ready(r, "submitUserData.getAll")
    /\ Finish(r, Result(submissions))
    /\ UNCHANGED <<clients, posts, nextId, submissions, submissionsNextId, clock, up>>
    /\ UNCHANGED outside

(***************************************************************************)
(* The upload router: multer with memory storage and limits, then the      *)
(* metadata handler.  One upload request is followed at a time.            *)
(***************************************************************************)
fileSizeLimit == 10 * 1024 * 1024      \* limits.fileSize
filesLimit == 10                       \* limits.files
maxCount == 10                         \* upload.array("files", 10)

\* Sizes tried, in bytes; the last is exactly the ceiling.
SizeTable == <<0, 1, 1023, 1024, 1536, 1048576, fileSizeLimit>>
MimeTable == <<"text/plain", "image/png", "application/pdf">>

\* The k-th file part of a batch: its name tells its position.
FilePart(k, size) ==
    [fieldname |-> "files", originalname |-> <<"file", k>>,
     mimetype |-> MimeTable[(k % Len(MimeTable)) + 1], size |-> size]

\* A batch of n parts; sizes follow the table from offset p; part `big`
\* (when not 0) is one byte over the ceiling.
MkBatch(n, p, big) ==
    [k \in 1..n |->
        FilePart(k, IF k = big THEN fileSizeLimit + 1
                    ELSE SizeTable[((k + p) % Len(SizeTable)) + 1])]

Batches ==
    UNION {{MkBatch(n, p, big) : p \in 0..(Len(SizeTable) - 1), big \in 0..n} :
           n \in 0..MaxBatch}

\* An upload request arrives (after the previous one was answered).
ReceiveUpload(batch) ==
    /\ up.st \in {"Idle", "Completed", "Failed"}
    /\ clock <= MaxUploads
    /\ up' = [st |-> "Received", batch |-> batch, files |-> <<>>,
              resp |-> NoResp, runs |-> 0]
    /\ UNCHANGED <<req, clients, posts, nextId, submissions, submissionsNextId, clock>>
    /\ UNCHANGED outside

\* Mutant: no size limit is configured, only the count is enforced.
firstViolationCountOnly(batch) ==
    IF Len(batch) > filesLimit THEN filesLimit + 1 ELSE 0

\* multer reads the parts in order; the first part over a limit aborts the
\* whole request with a MulterError.  0 when no part is over a limit.
firstViolation(batch) ==
    LET bad == {k \in 1..Len(batch) :
                    k > filesLimit \/ k > maxCount \/ batch[k].size > fileSizeLimit}
    IN IF bad = {} THEN 0 ELSE CHOOSE k \in bad : \A j \in bad : k <= j

multerCode(batch, k) ==
    IF k > filesLimit THEN "LIMIT_FILE_COUNT"
    ELSE IF k > maxCount THEN "LIMIT_UNEXPECTED_FILE"
    ELSE "LIMIT_FILE_SIZE"

\* upload.array("files", 10): on a violation next(err) is called, the route
\* handler is skipped and Express answers 500; otherwise req.files holds
\* every part, in order.
multerArray ==
    /\ up.st = "Received"
    /\ LET k == firstViolation(up.batch) IN
        IF k # 0
        THEN up' = [up EXCEPT !.st = "Failed",
                              !.resp = [kind |-> "error", status |-> 500,
                                        code |-> multerCode(up.batch, k)]]
        ELSE up' = [up EXCEPT !.st = "Parsed", !.files = up.batch]
    /\ UNCHANGED <<req, clients, posts, nextId, submissions, submissionsNextId, clock>>
    /\ UNCHANGED outside

\* formatFileSize(bytes): "0 B", else bytes / 1024^i with i the unit index,
\* no decimals for bytes and one decimal (rounded, ties up) otherwise.
units == <<"B", "KB", "MB", "GB">>

unitIndex(bytes) ==
    IF bytes < 1024 THEN 0
    ELSE IF bytes < 1024 * 1024 THEN 1
    ELSE IF bytes < 1024 * 1024 * 1024 THEN 2
    ELSE 3

pow1024(i) == CASE i = 0 -> 1 [] i = 1 -> 1024 [] i = 2 -> 1024 * 1024
                [] OTHER -> 1024 * 1024 * 1024

formatFileSize(bytes) ==
    IF bytes = 0 THEN <<0, " ", "B">>
    ELSE LET i == unitIndex(bytes)
             P == pow1024(i)
             tenths == (10 * bytes + (P \div 2)) \div P
         IN IF i = 0 THEN <<bytes, " ", units[1]>>
            ELSE <<tenths \div 10, ".", tenths % 10, " ", units[i + 1]>>

RECURSIVE sumSizes(_)
RECURSIVE sumFrom(_, _)
sumFrom(files, i) ==
    IF i > Len(files) THEN 0 ELSE files[i].size + sumFrom(files, i + 1)

\* Mutant: the sum starts at the second file.
sumSizesSkipFirst(files) == sumFrom(files, 2)

\* files.reduce((sum, f) => sum + f.size, 0)
sumSizes(files) ==
    IF Len(files) = 0 THEN 0
    ELSE sumSizes(SubSeq(files, 1, Len(files) - 1)) + files[Len(files)].size

\* Mutant: the entries come out in reverse order.
fileMetadataReversed(files) ==
    [k \in 1..Len(files) |->
        LET f == files[Len(files) + 1 - k] IN
        [originalName |-> f.originalname, mimeType |-> f.mimetype,
         size |-> f.size, sizeFormatted |-> formatFileSize(f.size)]]

\* files.map((file) => ({originalName, mimeType, size, sizeFormatted}))
fileMetadata(files) ==
    [k \in 1..Len(files) |->
        [originalName |-> files[k].originalname, mimeType |-> files[k].mimetype,
         size |-> files[k].size, sizeFormatted |-> formatFileSize(files[k].size)]]

\* fileUploadRouter.post("/", ...): the route handler.
uploadHandler ==
    /\ up.st = "Parsed"
    /\ LET files == up.files IN
        IF Len(files) = 0
        THEN /\ up' = [up EXCEPT !.st = "Failed", !.runs = @ + 1,
                          !.resp = Json(400, [success |-> FALSE,
                                              error |-> "At least one file is required."])]
             /\ UNCHANGED clock
        ELSE /\ up' = [up EXCEPT !.st = "Completed", !.runs = @ + 1,
                          !.resp = Json(200,
                              [success |-> TRUE,
                               data |-> [filesCount |-> Len(files),
                                         files |-> fileMetadata(files),
                                         totalSize |-> formatFileSize(sumSizes(files)),
                                         uploadedAt |-> clock]])]
             /\ clock' = clock + 1
    /\ UNCHANGED <<req, clients, posts, nextId, submissions, submissionsNextId>>
    /\ UNCHANGED outside

(***************************************************************************)
(* The browser's tRPC client (trpc.createClient).  The repository holds    *)
(* two builds of the client and of the form that uses it:                  *)
(*   "typed"     httpBatchLink alone; the form uploads through /api/upload *)
(*               and submits a JSON object;                                *)
(*   "formData"  splitLink over httpLink and httpBatchLink; the form       *)
(*               submits one FormData through tRPC.                        *)
(*   link.issued   the operations handed to the client, in order           *)
(*   link.pending  the operations the batching link holds for its next     *)
(*                 request (indices into issued)                           *)
(*   link.sent     the HTTP requests sent: the link and its operations     *)
(***************************************************************************)
Builds == {"typed", "formData"}

Op(path, type, formData) ==
    [path |-> path, type |-> type, formData |-> formData, input |-> NoInput]

\* The operations the components of a build issue; the input of
\* submitUserData.submit is a FormData in the "formData" build only.
Calls(build) ==
    {Op("hello", "query", FALSE), Op("submitUserData.getAll", "query", FALSE),
     Op("posts.create", "mutation", FALSE),
     Op("submitUserData.submit", "mutation", build = "formData")}

\* Mutant: the condition never holds, nothing is split off.
conditionNever(op) == FALSE

\* splitLink's condition: (op) => op.input instanceof FormData
condition(op) == op.formData

\* The terminating link an operation ends in.
linkOf(build, op) ==
    IF build = "formData"
    THEN IF condition(op) THEN "httpLink" ELSE "httpBatchLink"
    ELSE "httpBatchLink"

\* The client after an operation was handed to its links: httpLink sends
\* one request per operation at once, httpBatchLink queues the operation.
routed(l, op) ==
    LET i == Len(l.issued) + 1 IN
    IF linkOf(l.build, op) = "httpLink"
    THEN [l EXCEPT !.issued = Append(@, op),
                   !.sent = Append(@, [via |-> "httpLink", ops |-> <<i>>])]
    ELSE [l EXCEPT !.issued = Append(@, op), !.pending = Append(@, i)]

\* trpc.createClient({links: [...]}) at module load.
createClient(build) ==
    /\ link.build = "none"
    /\ link' = [link EXCEPT !.build = build]
    /\ UNCHANGED <<req, clients, posts, nextId, submissions, submissionsNextId, clock, up>>
    /\ UNCHANGED <<form, qb, att, hmr, sse, vite, tool>>

\* A component calls a procedure (useQuery, mutateAsync).
callProcedure(op) ==
    /\ link.build # "none"
    /\ Len(link.issued) < MaxOps
    /\ op \in Calls(link.build)
    /\ link' = routed(link, op)
    /\ UNCHANGED <<req, clients, posts, nextId, submissions, submissionsNextId, clock, up>>
    /\ UNCHANGED <<form, qb, att, hmr, sse, vite, tool>>

\* httpBatchLink sends what it queued as one request.
flushBatch ==
    /\ link.pending # <<>>
    /\ link' = [link EXCEPT !.pending = <<>>,
                            !.sent = Append(@, [via |-> "httpBatchLink", ops |-> link.pending])]
    /\ UNCHANGED <<req, clients, posts, nextId, submissions, submissionsNextId, clock, up>>
    /\ UNCHANGED <<form, qb, att, hmr, sse, vite, tool>>

(***************************************************************************)
(* The form of the "typed" build (FileUploadExample.tsx).                  *)
(*   form.st     Editing, Uploading (fetch to /api/upload pending),        *)
(*               Submitting (the submit mutation pending)                  *)
(*   form.runs   one record per handleSubmit call: the files it took, the  *)
(*               answer of its upload, the submit operation it issued      *)
(*               (index into link.issued, 0 for none)                      *)
(*   form.delivered  <<operation, request>>: the operations that reached   *)
(*               the server and the request each became                    *)
(***************************************************************************)
\* A File the user picked.
BrowserFile(k, size) ==
    [name |-> <<"file", k>>, type |-> MimeTable[(k % Len(MimeTable)) + 1], size |-> size]

\* The values the user may put in the form: no file, one, two, two with the
\* second over the ceiling, and one more file than the ceiling.
FormNames == {"", "Jane"}
FormEmails == {<<>>, <<"j", "@", "x", ".", "i", "o">>, <<"j", "x", ".", "i", "o">>}
FormFiles ==
    {<<>>, <<BrowserFile(1, 1024)>>, <<BrowserFile(1, 1536), BrowserFile(2, fileSizeLimit)>>,
     <<BrowserFile(1, 1), BrowserFile(2, fileSizeLimit + 1)>>,
     [k \in 1..(filesLimit + 1) |-> BrowserFile(k, k)]}

\* name.trim() && email.trim() && !isLoading
canSubmit == form.name # "" /\ form.email # <<>> /\ ~form.isLoading

\* files.forEach((file) => formData.append("files", file)), as multer reads it.
multipartOf(files) ==
    [k \in 1..Len(files) |->
        [fieldname |-> "files", originalname |-> files[k].name,
         mimetype |-> files[k].type, size |-> files[k].size]]

\* uploadedFiles.map((f) => ({originalName, mimeType, size}))
fileRefs(entries) ==
    [k \in 1..Len(entries) |->
        [originalName |-> entries[k].originalName, mimeType |-> entries[k].mimeType,
         size |-> entries[k].size]]

\* submitMutation.mutateAsync({name, email, files})
submitOp(run, entries) ==
    [Op("submitUserData.submit", "mutation", FALSE) EXCEPT
        !.input = [name |-> run.name, email |-> run.email, files |-> fileRefs(entries)]]

\* uploadRes.json() parsed, uploadRes.ok and uploadJson.success.
uploadOk(resp) ==
    resp.kind = "json" /\ resp.status \in 200..299 /\ resp.body.success

\* The message of the error thrown while reading a failed upload's answer.
uploadError(resp) ==
    IF resp.kind = "json" THEN resp.body.error ELSE "SyntaxError: Unexpected token"

LastRun == form.runs[Len(form.runs)]
SetLastRun(run) == [form.runs EXCEPT ![Len(form.runs)] = run]

\* The user edits the fields (setName, setEmail, addFiles, removeFile).
edit(name, email, files) ==
    /\ form.st = "Editing"
    /\ Len(form.runs) < MaxSubmits
    /\ form' = [form EXCEPT !.name = name, !.email = email, !.files = files]
    /\ UNCHANGED <<req, clients, posts, nextId, submissions, submissionsNextId, clock, up>>
    /\ UNCHANGED <<link, qb, att, hmr, sse, vite, tool>>

\* handleSubmit up to its first await: with files it sends them to
\* /api/upload, without files it goes straight to the submit mutation.
handleSubmit ==
    /\ form.st = "Editing"
    /\ link.build = "typed"
    /\ canSubmit
    /\ Len(form.runs) < MaxSubmits
    /\ LET run == [name |-> form.name, email |-> form.email, files |-> form.files,
                   upload |-> NoResp, op |-> 0]
       IN
        IF Len(form.files) > 0
        THEN /\ up' = [st |-> "Received", batch |-> multipartOf(form.files),
                       files |-> <<>>, resp |-> NoResp, runs |-> 0]
             /\ form' = [form EXCEPT !.st = "Uploading", !.isLoading = TRUE,
                                     !.error = Undefined, !.runs = Append(@, run)]
             /\ UNCHANGED link
        ELSE /\ link' = routed(link, submitOp(run, <<>>))
             /\ form' = [form EXCEPT !.st = "Submitting", !.isLoading = TRUE,
                                     !.error = Undefined,
                                     !.runs = Append(@, [run EXCEPT !.op = Len(link.issued) + 1])]
             /\ UNCHANGED up
    /\ UNCHANGED <<req, clients, posts, nextId, submissions, submissionsNextId, clock>>
    /\ UNCHANGED <<qb, att, hmr, sse, vite, tool>>

\* Mutant: the answer of the upload is not checked before submitting.
afterUploadUnchecked ==
    /\ form.st = "Uploading"
    /\ up.st \in {"Completed", "Failed"}
    /\ LET entries == IF uploadOk(up.resp) THEN up.resp.body.data.files ELSE <<>> IN
        /\ link' = routed(link, submitOp(LastRun, entries))
        /\ form' = [form EXCEPT !.st = "Submitting",
                        !.runs = SetLastRun([LastRun EXCEPT !.upload = up.resp,
                                                            !.op = Len(link.issued) + 1])]
    /\ UNCHANGED <<req, clients, posts, nextId, submissions, submissionsNextId, clock, up>>
    /\ UNCHANGED <<qb, att, hmr, sse, vite, tool>>

\* handleSubmit after the upload answered: a failed upload throws into the
\* catch block, a successful one hands its entries to the submit mutation.
afterUpload ==
    /\ form.st = "Uploading"
    /\ up.st \in {"Completed", "Failed"}
    /\ IF uploadOk(up.resp)
       THEN /\ link' = routed(link, submitOp(LastRun, up.resp.body.data.files))
            /\ form' = [form EXCEPT !.st = "Submitting",
                            !.runs = SetLastRun([LastRun EXCEPT !.upload = up.resp,
                                                                !.op = Len(link.issued) + 1])]
       ELSE /\ form' = [form EXCEPT !.st = "Editing", !.isLoading = FALSE,
                            !.error = Some(uploadError(up.resp)),
                            !.runs = SetLastRun([LastRun EXCEPT !.upload = up.resp])]
            /\ UNCHANGED link
    /\ UNCHANGED <<req, clients, posts, nextId, submissions, submissionsNextId, clock, up>>
    /\ UNCHANGED <<qb, att, hmr, sse, vite, tool>>

\* An operation the client sent reaches the server and becomes request r;
\* each call of a batch is followed as a request of its own.
deliver(r, i, tok) ==
    /\ \E k \in 1..Len(link.sent) :
          \E j \in 1..Len(link.sent[k].ops) : link.sent[k].ops[j] = i
    /\ \A d \in form.delivered : d[1] # i
    /\ Arrive(r, [url |-> ProcUrl(link.issued[i].path), cookie |-> tok,
                  input |-> link.issued[i].input], CookiesWith(tok))
    /\ form' = [form EXCEPT !.delivered = @ \cup {<<i, r>>}]
    /\ UNCHANGED <<clients, posts, nextId, submissions, submissionsNextId, clock, up>>
    /\ UNCHANGED <<link, qb, att, hmr, sse, vite, tool>>

\* handleSubmit after the submit mutation settled: onSuccess refetches the
\* list and clears the fields, a failure lands in the catch block.
afterSubmit ==
    /\ form.st = "Submitting"
    /\ \E d \in form.delivered :
        /\ d[1] = LastRun.op
        /\ Terminal(d[2])
        /\ IF req[d[2]].st = "Completed"
           THEN /\ link' = routed(link, Op("submitUserData.getAll", "query", FALSE))
                /\ form' = [form EXCEPT !.st = "Editing", !.isLoading = FALSE,
                                !.name = "", !.email = <<>>, !.files = <<>>]
           ELSE /\ form' = [form EXCEPT !.st = "Editing", !.isLoading = FALSE,
                                !.error = Some(req[d[2]].resp.message)]
                /\ UNCHANGED link
    /\ UNCHANGED <<req, clients, posts, nextId, submissions, submissionsNextId, clock, up>>
    /\ UNCHANGED <<qb, att, hmr, sse, vite, tool>>

(***************************************************************************)
(* The query builder's column types (taylordb/types.ts): for every column  *)
(* kind the filter operators and the type of value each takes, and the     *)
(* types of the values an insert or an update takes.                       *)
(* A JavaScript value is a record named after its type: [str |-> "a"],     *)
(* [num |-> 1], [bool |-> TRUE], [arr |-> <<...>>] (arrays and tuples),    *)
(* [value |-> ..., date |-> ...] (the object form of isWithIn).            *)
(***************************************************************************)
Str(s) == [str |-> s]
Num(n) == [num |-> n]
Bool(b) == [bool |-> b]
Arr(items) == [arr |-> items]
IsStr(v) == DOMAIN v = {"str"}
IsNum(v) == DOMAIN v = {"num"}
IsBool(v) == DOMAIN v = {"bool"}
IsArr(v) == DOMAIN v = {"arr"}

\* string[] / number[] / O[number][]
IsStrArr(v) == IsArr(v) /\ \A k \in 1..Len(v.arr) : IsStr(v.arr[k])
IsNumArr(v) == IsArr(v) /\ \A k \in 1..Len(v.arr) : IsNum(v.arr[k])
\* A two-element tuple [tag, arg] with tag one of tags.
IsTagged(v, tags) ==
    IsArr(v) /\ Len(v.arr) = 2 /\ IsStr(v.arr[1]) /\ v.arr[1].str \in tags

IsWithinOperatorValue ==
    {"pastWeek", "pastMonth", "pastYear", "nextWeek", "nextMonth", "nextYear",
     "daysFromNow", "daysAgo", "currentWeek", "currentMonth", "currentYear"}

\* Mutant: any string is a date filter value.
DefaultDateFilterValueAnyString(v) ==
    \/ IsStr(v)
    \/ IsTagged(v, {"exactDay", "exactTimestamp"}) /\ IsStr(v.arr[2])
    \/ IsTagged(v, {"daysAgo", "daysFromNow"}) /\ IsNum(v.arr[2])

DefaultDateFilterValue(v) ==
    \/ IsStr(v) /\ v.str \in {"today", "tomorrow", "yesterday", "oneWeekAgo",
                              "oneWeekFromNow", "oneMonthAgo", "oneMonthFromNow"}
    \/ IsTagged(v, {"exactDay", "exactTimestamp"}) /\ IsStr(v.arr[2])
    \/ IsTagged(v, {"daysAgo", "daysFromNow"}) /\ IsNum(v.arr[2])

Comparisons == {"=", "!=", "<", ">", "<=", ">="}

\* type DateFilters: does value v have the type declared for operator op?
\* (FALSE for an operator the type does not declare, and for `never`.)
DateFilters(op, v) ==
    CASE op \in Comparisons -> DefaultDateFilterValue(v)
      [] op = "isWithIn" ->
            \/ IsStr(v) /\ v.str \in IsWithinOperatorValue
            \/ /\ DOMAIN v = {"value", "date"}
               /\ v.value \in {"daysAgo", "daysFromNow"}
               /\ v.date \in Int
      [] op \in {"isEmpty", "isNotEmpty"} -> IsBool(v)
      [] OTHER -> FALSE

TextFilters(op, v) ==
    CASE op \in {"=", "!=", "caseEqual", "contains", "startsWith", "endsWith",
                 "doesNotContain"} -> IsStr(v)
      [] op = "hasAnyOf" -> IsStrArr(v)
      [] OTHER -> FALSE

LinkFilters(op, v) ==
    CASE op \in {"hasAnyOf", "hasAllOf", "isExactly", "hasNoneOf"} -> IsNumArr(v)
      [] op = "=" -> IsNum(v)
      [] op \in {"contains", "doesNotContain"} -> IsStr(v)
      [] OTHER -> FALSE

SelectFilters(O, op, v) ==
    CASE op \in {"hasAnyOf", "hasAllOf", "isExactly", "hasNoneOf"} ->
            IsStrArr(v) /\ \A k \in 1..Len(v.arr) : v.arr[k].str \in O
      [] op = "=" -> IsStr(v) /\ v.str \in O
      [] op \in {"contains", "doesNotContain"} -> IsStr(v)
      [] OTHER -> FALSE

NumberFilters(op, v) ==
    CASE op \in Comparisons -> IsNum(v)
      [] op \in {"hasAnyOf", "hasNoneOf"} -> IsNumArr(v)
      [] OTHER -> FALSE

\* Mutant: a checkbox column takes every operator.
CheckboxFiltersAnyOperator(op, v) == IsNum(v)

CheckboxFilters(op, v) ==
    CASE op = "=" -> IsNum(v)
      [] OTHER -> FALSE

\* VmStatusOptions, the options of the single-select column apps.status.
VmStatusOptions == {"Active", "Inactive", "Pending", "Errored"}

\* The column kinds: DateColumnType, TextColumnType, NumberColumnType,
\* CheckboxColumnType, SingleSelectColumnType, LinkColumnType,
\* AttachmentColumnType.
Kinds == {"date", "text", "number", "checkbox", "select", "link", "attachment"}

\* ColumnType.filters of a column of the kind, applied to (op, v).
filters(kind, op, v) ==
    CASE kind = "date" -> DateFilters(op, v)
      [] kind = "text" -> TextFilters(op, v)
      [] kind = "number" -> NumberFilters(op, v)
      [] kind = "checkbox" -> CheckboxFilters(op, v)
      [] kind = "select" -> SelectFilters(VmStatusOptions, op, v)
      [] OTHER -> LinkFilters(op, v)

\* Mutant: a single-select value must be wrapped in an array.
SingleSelectArrayOnly(O, v) ==
    IsStrArr(v) /\ \A k \in 1..Len(v.arr) : v.arr[k].str \in O

\* SingleSelectColumnType: insert and update take O[number] | O[number][].
SingleSelect(O, v) ==
    \/ IsStr(v) /\ v.str \in O
    \/ IsStrArr(v) /\ \A k \in 1..Len(v.arr) : v.arr[k].str \in O

(***************************************************************************)
(* The query translation layer: a statement is built (its filters and      *)
(* values checked against the column types), then executed against the     *)
(* external table.                                                         *)
(*   qb.st      Idle, Built, Rejected, Done                                *)
(*   qb.stmt    the statement: op, the value for the status column (insert *)
(*              and update), the filter predicates                         *)
(*   qb.called  the external store was called for the statement            *)
(*   qb.flagged the statement was flagged as a broad-impact operation      *)
(*   qb.rows    the rows of the external table (their status column)       *)
(*   qb.before  the rows when the statement was built                      *)
(***************************************************************************)
Operators ==
    Comparisons \cup
    {"isWithIn", "isEmpty", "isNotEmpty", "caseEqual", "hasAnyOf", "hasAllOf",
     "isExactly", "hasNoneOf", "contains", "startsWith", "endsWith",
     "doesNotContain", "like"}

FilterValues ==
    {Str("2024-01-15"), Str("today"), Str("pastWeek"), Str("Active"), Num(7), Bool(TRUE),
     Arr(<<Str("exactDay"), Str("2024-01-15")>>), Arr(<<Str("daysAgo"), Num(7)>>),
     Arr(<<Str("exactDay"), Num(7)>>), Arr(<<Num(1), Num(2)>>), Arr(<<Str("Active")>>),
     [value |-> "daysAgo", date |-> 7]}

StatusValues ==
    {Str("Active"), Arr(<<Str("Active")>>), Str("Pending"), Arr(<<Str("Pending")>>),
     Str("Nope"), Arr(<<Str("Nope")>>), Num(7)}

\* .where(column, op, value) on a column of the kind.
Pred(kind, op, v) == [kind |-> kind, op |-> op, value |-> v]

WhereClauses ==
    {<<>>, <<Pred("select", "=", Str("Inactive"))>>, <<Pred("date", "=", Str("2024-01-15"))>>}

Statement(op, status, where) == [op |-> op, status |-> status, where |-> where]

\* selectFrom(t).where(...), insertInto(t).values({status}),
\* update(t).set({status}).where(...), deleteFrom(t).where(...)
Statements ==
    {Statement("select", Undefined, <<Pred(k, o, v)>>) :
        k \in Kinds, o \in Operators, v \in FilterValues}
    \cup {Statement("insert", Some(v), <<>>) : v \in StatusValues}
    \cup {Statement("update", Some(v), w) : v \in StatusValues, w \in WhereClauses}
    \cup {Statement("delete", Undefined, w) : w \in WhereClauses}

\* A statement type-checks: every predicate's operator and value fit the
\* filters of its column kind, the status value fits the column's insert
\* or update type.
accepts(stmt) ==
    /\ \A k \in 1..Len(stmt.where) :
          filters(stmt.where[k].kind, stmt.where[k].op, stmt.where[k].value)
    /\ IsDefined(stmt.status) => SingleSelect(VmStatusOptions, Get(stmt.status))

\* The raw value of a single-select column for a written value: the option.
stored(v) == IF IsArr(v) THEN v.arr[1].str ELSE v.str

\* Does a row satisfy the predicates (those on the status column)?
matches(row, where) ==
    \A k \in 1..Len(where) :
        (where[k].kind = "select" /\ where[k].op = "=") => row.status = where[k].value.str

\* The table after the statement ran.
applied(stmt, rows) ==
    CASE stmt.op = "insert" -> Append(rows, [status |-> stored(Get(stmt.status))])
      [] stmt.op = "update" ->
            [i \in 1..Len(rows) |->
                IF matches(rows[i], stmt.where)
                THEN [status |-> stored(Get(stmt.status))] ELSE rows[i]]
      [] stmt.op = "delete" -> SelectSeq(rows, LAMBDA row : ~matches(row, stmt.where))
      [] OTHER -> rows

\* A statement is written: it is built when it type-checks and rejected
\* with a validation error otherwise.
build(stmt) ==
    /\ qb.st = "Idle"
    /\ stmt.op = "insert" => Len(qb.rows) < MaxRows
    /\ qb' = [qb EXCEPT !.st = IF accepts(stmt) THEN "Built" ELSE "Rejected",
                        !.stmt = stmt, !.called = FALSE, !.flagged = FALSE,
                        !.before = qb.rows,
                        !.error = IF accepts(stmt) THEN Undefined
                                  ELSE Some("ValidationError")]
    /\ UNCHANGED <<req, clients, posts, nextId, submissions, submissionsNextId, clock, up>>
    /\ UNCHANGED <<form, link, att, hmr, sse, vite, tool>>

\* Mutant: no statement is flagged.
executeUnflagged ==
    /\ qb.st = "Built"
    /\ qb' = [qb EXCEPT !.st = "Done", !.called = TRUE,
                        !.rows = applied(qb.stmt, qb.rows)]
    /\ UNCHANGED <<req, clients, posts, nextId, submissions, submissionsNextId, clock, up>>
    /\ UNCHANGED <<form, link, att, hmr, sse, vite, tool>>

\* .execute(): the external store runs the statement; an update or delete
\* without a filter is flagged as a broad-impact operation.
execute ==
    /\ qb.st = "Built"
    /\ qb' = [qb EXCEPT !.st = "Done", !.called = TRUE,
                        !.flagged = qb.stmt.op \in {"update", "delete"}
                                       /\ qb.stmt.where = <<>>,
                        !.rows = applied(qb.stmt, qb.rows)]
    /\ UNCHANGED <<req, clients, posts, nextId, submissions, submissionsNextId, clock, up>>
    /\ UNCHANGED <<form, link, att, hmr, sse, vite, tool>>

\* The caller has its result or its error; the statement is dropped.
settle ==
    /\ qb.st \in {"Rejected", "Done"}
    /\ qb' = [qb EXCEPT !.st = "Idle",
                        !.stmt = [op |-> "none", status |-> Undefined, where |-> <<>>],
                        !.called = FALSE, !.flagged = FALSE, !.error = Undefined,
                        !.before = <<>>]
    /\ UNCHANGED <<req, clients, posts, nextId, submissions, submissionsNextId, clock, up>>
    /\ UNCHANGED <<form, link, att, hmr, sse, vite, tool>>

(***************************************************************************)
(* Attachment references (class Attachment).                               *)
(***************************************************************************)
\* The FileInformation of an upload: the fields the class reads and two it
\* does not (originalname, filename).
FileInformations ==
    [originalname : {"a.png"}, filename : {"f1"}, path : {"/files/f1", "/files/f2"},
     mimetype : {"image/png", "text/plain"}, size : {0, 5}]

\* The UploadResponse the storage service answers with.
UploadResponses ==
    [collectionName : {"attachments"}, fileInformation : FileInformations,
     baseId : {"base"}, storageAdaptor : {"s3"}, _id : {"id1"}, __v : {0}]

\* constructor(data): the fields of data but __v.
Attachment(data) ==
    [collectionName |-> data.collectionName, fileInformation |-> data.fileInformation,
     baseId |-> data.baseId, storageAdaptor |-> data.storageAdaptor, _id |-> data._id]

toColumnValueFilename(this) ==
    [url |-> this.fileInformation.filename,
     fileType |-> this.fileInformation.mimetype,
     size |-> this.fileInformation.size]

toColumnValue(this) ==
    [url |-> this.fileInformation.path,
     fileType |-> this.fileInformation.mimetype,
     size |-> this.fileInformation.size]

\* new Attachment(data)
newAttachment(data) ==
    /\ Len(att.objects) < MaxAttachments
    /\ att' = [att EXCEPT !.objects = Append(@, Attachment(data))]
    /\ UNCHANGED <<req, clients, posts, nextId, submissions, submissionsNextId, clock, up>>
    /\ UNCHANGED <<form, link, qb, hmr, sse, vite, tool>>

\* attachment.toColumnValue(): the value goes to the caller, the object
\* stays as it is.
readColumnValue(i) ==
    /\ i \in 1..Len(att.objects)
    /\ Len(att.returned) < MaxReads
    /\ att' = [att EXCEPT
                 !.returned = Append(@, [of |-> i, value |-> toColumnValue(att.objects[i])])]
    /\ UNCHANGED <<req, clients, posts, nextId, submissions, submissionsNextId, clock, up>>
    /\ UNCHANGED <<form, link, qb, hmr, sse, vite, tool>>

(***************************************************************************)
(* DevServerHMRPlugin (.opencode/plugin/dev-server-hmr.ts).  An event      *)
(* handler runs up to its next await in one step; handlers of different    *)
(* events interleave at their awaits.                                      *)
(***************************************************************************)
EventTypes == {"session.idle", "message.updated"}
Sessions == {"s1", "s2"}
ExitCodes == {0, 1}

\* What the plugin did for event e (0: for a chat message).
Effect(e, kind, status) == [ev |-> e, kind |-> kind, status |-> status]

\* if (!client.session["tries"]) client.session["tries"] = 0;
\* else client.session["tries"]++;
\* !x holds of undefined and of 0.
triesAfterFailure(tries) ==
    IF tries = <<>> \/ tries[1] = 0 THEN 0 ELSE tries[1] + 1

\* event: async ({ event }) => ..., up to `await $`pnpm build``.
event(e, type, sessionID) ==
    /\ hmr.ev[e].st = "None"
    /\ \A d \in 1..(e - 1) : hmr.ev[d].st # "None"
    /\ hmr' = [hmr EXCEPT
                 !.ev[e] = [st |-> IF type = "session.idle" THEN "Building" ELSE "Done",
                            type |-> type, sessionID |-> sessionID, exitCode |-> <<>>],
                 !.sent = IF type = "session.idle"
                          THEN Append(@, Effect(e, "build", "")) ELSE @]
    /\ UNCHANGED <<req, clients, posts, nextId, submissions, submissionsNextId, clock, up>>
    /\ UNCHANGED <<form, link, qb, att, sse, vite, tool>>

\* The build ended with exitCode; the handler goes on to its next await.
buildExited(e, exitCode) ==
    /\ hmr.ev[e].st = "Building"
    /\ LET tries == IF exitCode # 0 THEN <<triesAfterFailure(hmr.tries)>> ELSE hmr.tries
           st == IF exitCode = 0 THEN "Active"
                 ELSE IF tries[1] > 3 THEN "Errored" ELSE "Prompting"
       IN hmr' = [hmr EXCEPT !.tries = tries,
                             !.ev[e].st = st,
                             !.ev[e].exitCode = <<exitCode>>]
    /\ UNCHANGED <<req, clients, posts, nextId, submissions, submissionsNextId, clock, up>>
    /\ UNCHANGED <<form, link, qb, att, sse, vite, tool>>

\* await client.session.prompt(...): the session is asked to fix the build;
\* the call resolves or rejects.
prompt(e, ok) ==
    /\ hmr.ev[e].st = "Prompting"
    /\ hmr' = [hmr EXCEPT !.ev[e].st = IF ok THEN "Active" ELSE "Rejected",
                          !.sent = Append(@, Effect(e, "prompt", hmr.ev[e].sessionID))]
    /\ UNCHANGED <<req, clients, posts, nextId, submissions, submissionsNextId, clock, up>>
    /\ UNCHANGED <<form, link, qb, att, sse, vite, tool>>

\* await updateAppStatus("Errored" | "Active"): the PUT is sent; it resolves
\* or rejects, and the handler ends either way.
updateAppStatus(e, ok) ==
    /\ hmr.ev[e].st \in {"Errored", "Active"}
    /\ hmr' = [hmr EXCEPT !.ev[e].st = IF ok THEN "Done" ELSE "Rejected",
                          !.sent = Append(@, Effect(e, "put", hmr.ev[e].st))]
    /\ UNCHANGED <<req, clients, posts, nextId, submissions, submissionsNextId, clock, up>>
    /\ UNCHANGED <<form, link, qb, att, sse, vite, tool>>

\* "chat.message": await updateAppStatus("Pending")
chatMessage ==
    /\ hmr.chats < MaxChats
    /\ hmr' = [hmr EXCEPT !.chats = @ + 1,
                          !.sent = Append(@, Effect(0, "put", "Pending"))]
    /\ UNCHANGED <<req, clients, posts, nextId, submissions, submissionsNextId, clock, up>>
    /\ UNCHANGED <<form, link, qb, att, sse, vite, tool>>

(***************************************************************************)
(* The dev server's log streams (vite.config.ts).  Each request to         *)
(* /sse-logs has one PassThrough stream, named by the request's number.    *)
(* The process is single-threaded: a handler or a console call is one step.*)
(***************************************************************************)
ConsoleLevels == {"log", "warn", "error", "info"}
ConsoleArgs == {<<"ready">>, <<"build", "failed">>}

\* args.join(" ")
RECURSIVE join(_)
join(args) ==
    IF Len(args) = 0 THEN <<>>
    ELSE IF Len(args) = 1 THEN <<args[1]>>
    ELSE <<args[1], " ">> \o join(Tail(args))

\* sendLog(message) with `clients` being cl: one write to each stream of cl.
sendLog(cl, message) ==
    [c \in 1..MaxStreams |->
        IF c \in cl THEN Append(sse.written[c], message) ELSE sse.written[c]]

\* The /sse-logs middleware: a request arrives.
connect(c) ==
    /\ sse.conn[c] = "None"
    /\ \A d \in 1..(c - 1) : sse.conn[d] # "None"
    /\ sse' = [sse EXCEPT
                 !.clients = @ \cup {c},
                 !.conn[c] = "Open",
                 !.written = sendLog(sse.clients \cup {c},
                                     [level |-> "info",
                                      message |-> <<"Client connected to SSE logs">>])]
    /\ UNCHANGED <<req, clients, posts, nextId, submissions, submissionsNextId, clock, up>>
    /\ UNCHANGED <<form, link, qb, att, hmr, vite, tool>>

\* Mutant: the close listener sends its message before it deletes the stream.
closeSendingFirst(c) ==
    /\ sse.conn[c] = "Open"
    /\ sse' = [sse EXCEPT
                 !.clients = @ \ {c},
                 !.conn[c] = "Closed",
                 !.written = sendLog(sse.clients,
                                     [level |-> "info",
                                      message |-> <<"Client disconnected from SSE logs">>])]
    /\ UNCHANGED <<req, clients, posts, nextId, submissions, submissionsNextId, clock, up>>
    /\ UNCHANGED <<form, link, qb, att, hmr, vite, tool>>

\* req.on("close", ...): the request of stream c closed.
close(c) ==
    /\ sse.conn[c] = "Open"
    /\ sse' = [sse EXCEPT
                 !.clients = @ \ {c},
                 !.conn[c] = "Closed",
                 !.written = sendLog(sse.clients \ {c},
                                     [level |-> "info",
                                      message |-> <<"Client disconnected from SSE logs">>])]
    /\ UNCHANGED <<req, clients, posts, nextId, submissions, submissionsNextId, clock, up>>
    /\ UNCHANGED <<form, link, qb, att, hmr, vite, tool>>

\* console[level](...args), as replaced at module load.
console(level, args) ==
    /\ sse.logs < MaxLogs
    /\ sse' = [sse EXCEPT
                 !.logs = @ + 1,
                 !.written = sendLog(sse.clients, [level |-> level, message |-> join(args)])]
    /\ UNCHANGED <<req, clients, posts, nextId, submissions, submissionsNextId, clock, up>>
    /\ UNCHANGED <<form, link, qb, att, hmr, vite, tool>>

(***************************************************************************)
(* The host-validation middleware (unnamed/part_001).  A string is the     *)
(* sequence of its pieces: names, and the characters "." and ":" that      *)
(* split and end them.                                                     *)
(***************************************************************************)
allowedHosts ==
    <<<<".", "develop", ".", "taylordb", ".", "ai">>, <<"localhost">>,
      <<"127", ".", "0", ".", "0", ".", "1">>>>

\* The Host headers tried: undefined, or a value.
HostHeaders ==
    {<<>>,
     <<<<>>>>,
     <<<<"localhost">>>>,
     <<<<"localhost", ":", "5173">>>>,
     <<<<"127", ".", "0", ".", "0", ".", "1">>>>,
     <<<<"app", ".", "develop", ".", "taylordb", ".", "ai", ":", "443">>>>,
     <<<<"develop", ".", "taylordb", ".", "ai">>>>,
     <<<<"evil", ".", "com">>>>,
     <<<<"evil", ".", "com", ":", "localhost">>>>,
     <<<<"localhost", ".", "evil", ".", "com">>>>,
     <<<<"evil", "localhost">>>>,
     <<<<"evil", "-", "127", ".", "0", ".", "0", ".", "1", ":", "5173">>>>}

\* str.split(":")[0]
beforeColon(str) ==
    IF \E k \in 1..Len(str) : str[k] = ":"
    THEN SubSeq(str, 1, (CHOOSE k \in 1..Len(str) :
                            str[k] = ":" /\ \A j \in 1..(k - 1) : str[j] # ":") - 1)
    ELSE str

\* str.endsWith(suffix)
endsWith(str, suffix) ==
    /\ Len(suffix) <= Len(str)
    /\ SubSeq(str, Len(str) - Len(suffix) + 1, Len(str)) = suffix

\* The middleware: next(), or 403 "Forbidden host".
hostValidation(header) ==
    /\ Len(vite) < MaxHostReqs
    /\ LET host == IF header = <<>> THEN <<>> ELSE <<beforeColon(header[1])>>
           pass == /\ host # <<>> /\ host[1] # <<>>
                   /\ \E a \in 1..Len(allowedHosts) : endsWith(host[1], allowedHosts[a])
       IN vite' = Append(vite, [header |-> header,
                                next |-> pass,
                                status |-> IF pass THEN <<>> ELSE <<403>>])
    /\ UNCHANGED <<req, clients, posts, nextId, submissions, submissionsNextId, clock, up>>
    /\ UNCHANGED <<form, link, qb, att, hmr, sse, tool>>

(***************************************************************************)
(* FileProtectionPlugin (unnamed/part_000).  A path is the sequence of its *)
(* pieces: names, and the characters "/" and "." between them.             *)
(***************************************************************************)
uneditableFiles ==
    <<<<".", "env">>,
      <<".", "env", ".", "local">>,
      <<".", "env", ".", "development">>,
      <<".", "env", ".", "production">>,
      <<"src", "/", "lib", "/", "*", ".", "ts">>,
      <<"opencode", ".", "json">>>>

FilePaths ==
    {<<".", "env">>,
     <<".", "env", ".", "local">>,
     <<".", "env", ".", "production">>,
     <<".", "env", ".", "example">>,
     <<"opencode", ".", "json">>,
     <<"src", "/", "lib", "/", "utils", ".", "ts">>,
     <<"src", "/", "lib", "/", "trpc", ".", "client", ".", "ts">>,
     <<"src", "/", "lib", "/", "utils", ".", "tsx">>,
     <<"src", "/", "lib", "/", ".", "hidden", ".", "ts">>,
     <<"src", "/", "lib", "/", "sub", "/", "utils", ".", "ts">>,
     <<"src", "/", "App", ".", "tsx">>,
     <<"apps", "/", "server", "/", ".", "env">>,
     <<"/", "app", "/", ".", "env">>}

\* The tool calls tried: the tool and output.args.filePath (undefined for
\* a tool without one).
ToolCalls ==
    {[tool |-> t, filePath |-> <<f>>] : t \in {"edit", "write"}, f \in FilePaths}
    \cup {[tool |-> "bash", filePath |-> <<>>]}

\* The glob match of micromatch with its default options: the pattern is
\* matched against the whole path; "*" stands for any run of characters
\* without "/", and not for a name that starts with "." (dot: false).
RECURSIVE globMatch(_, _, _)
globMatch(pattern, str, atStart) ==
    IF pattern = <<>> THEN str = <<>>
    ELSE IF pattern[1] = "*"
    THEN /\ atStart => (str # <<>> /\ str[1] # ".")
         /\ \E k \in 0..Len(str) :
               /\ \A j \in 1..k : str[j] # "/"
               /\ globMatch(Tail(pattern), SubSeq(str, k + 1, Len(str)), FALSE)
    ELSE /\ str # <<>>
         /\ str[1] = pattern[1]
         /\ globMatch(Tail(pattern), Tail(str), pattern[1] = "/")

\* micromatch.isMatch(str, pattern)
isMatch(str, pattern) == globMatch(pattern, str, TRUE)

\* Mutant: the hook protects the files against every tool.
toolExecuteBeforeAnyTool(call) ==
    /\ Len(tool) < MaxToolCalls
    /\ LET thrown == /\ call.filePath # <<>>
                     /\ \E k \in 1..Len(uneditableFiles) :
                           isMatch(call.filePath[1], uneditableFiles[k])
       IN tool' = Append(tool, [call |-> call, thrown |-> thrown, executed |-> ~thrown])
    /\ UNCHANGED <<req, clients, posts, nextId, submissions, submissionsNextId, clock, up>>
    /\ UNCHANGED <<form, link, qb, att, hmr, sse, vite>>

\* "tool.execute.before": throws, or returns and the tool executes.
toolExecuteBefore(call) ==
    /\ Len(tool) < MaxToolCalls
    /\ LET thrown == /\ call.tool = "edit"
                     /\ \E k \in 1..Len(uneditableFiles) :
                           isMatch(call.filePath[1], uneditableFiles[k])
       IN tool' = Append(tool, [call |-> call, thrown |-> thrown, executed |-> ~thrown])
    /\ UNCHANGED <<req, clients, posts, nextId, submissions, submissionsNextId, clock, up>>
    /\ UNCHANGED <<form, link, qb, att, hmr, sse, vite>>

(***************************************************************************)
(* Specifications.                                                         *)
(***************************************************************************)
\* The request object as the tRPC middleware and createContext get it:
\* req.cookies is undefined, or holds the cookies the caller sent.
ReceiveReq(r) ==
    /\ req[r].st = "Idle"
    /\ \E rq \in Requests, parsed \in BOOLEAN :
        /\ parsed \/ rq.cookie = Undefined
        /\ Receive(r, rq, IF parsed THEN CookiesWith(rq.cookie) ELSE NoCookies)

\* The Express app as index.ts assembles it: cors, the health route, the
\* tRPC mount.  Nothing in that chain parses the Cookie header, so
\* req.cookies stays undefined whatever the caller sent.
expressCookies(cookie) == NoCookies

ReceiveHttp(r) ==
    /\ req[r].st = "Idle"
    /\ \E rq \in Requests : Receive(r, rq, expressCookies(rq.cookie))

Handlers(r) ==
    \/ hello(r)
    \/ postsGetById(r)
    \/ postsCreate(r)
    \/ postsUpdate(r)
    \/ postsDelete(r)
    \/ postsPublish(r)
    \/ submit(r)
    \/ submitGetAll(r)

\* The gateway, entered with any request object.
Next ==
    \E r \in ReqIds :
        \/ ReceiveReq(r)
        \/ Health(r)
        \/ TrpcRoot(r)
        \/ createContext(r)
        \/ parseInput(r)
        \/ Handlers(r)

Spec == Init /\ [][Next]_vars

\* The app of index.ts, entered with HTTP requests.
NextApp ==
    \E r \in ReqIds :
        \/ ReceiveHttp(r)
        \/ Health(r)
        \/ TrpcRoot(r)
        \/ createContext(r)

SpecApp == Init /\ [][NextApp]_vars

\* The posts router behind the gateway: every request carries a token and
\* names a procedure of postsRouter.
PostsProcedures ==
    {"posts.getById", "posts.create", "posts.update", "posts.delete", "posts.publish"}

PostsRequests ==
    UNION {{[url |-> ProcUrl(p), cookie |-> Some("tokA"), input |-> i] : i \in InputsOf(p)} :
           p \in PostsProcedures}

ReceivePosts(r) ==
    /\ req[r].st = "Idle"
    /\ \E rq \in PostsRequests : Receive(r, rq, CookiesWith(rq.cookie))

NextPosts ==
    \E r \in ReqIds :
        \/ ReceivePosts(r)
        \/ createContext(r)
        \/ parseInput(r)
        \/ postsGetById(r)
        \/ postsCreate(r)
        \/ postsUpdate(r)
        \/ postsDelete(r)
        \/ postsPublish(r)

SpecPosts == Init /\ [][NextPosts]_vars

\* The submitUserData router behind the gateway: every request carries a
\* token and names submit or getAll.
SubmissionsRequests ==
    UNION {{[url |-> ProcUrl(p), cookie |-> Some("tokA"), input |-> i] : i \in InputsOf(p)} :
           p \in {"submitUserData.submit", "submitUserData.getAll"}}

ReceiveSubmissions(r) ==
    /\ req[r].st = "Idle"
    /\ \E rq \in SubmissionsRequests : Receive(r, rq, CookiesWith(rq.cookie))

NextSubmissions ==
    \E r \in ReqIds :
        \/ ReceiveSubmissions(r)
        \/ createContext(r)
        \/ parseInput(r)
        \/ submit(r)
        \/ submitGetAll(r)

SpecSubmissions == Init /\ [][NextSubmissions]_vars

\* The browser's tRPC client, in either build.
AllOps == UNION {Calls(b) : b \in Builds}

NextClient ==
    \/ \E b \in Builds : createClient(b)
    \/ \E op \in AllOps : callProcedure(op)
    \/ flushBatch

SpecClient == Init /\ [][NextClient]_vars

\* The form of the "typed" build with the upload router and the gateway
\* behind it.
NextForm ==
    \/ createClient("typed")
    \/ \E name \in FormNames, email \in FormEmails, files \in FormFiles :
          edit(name, email, files)
    \/ handleSubmit
    \/ multerArray
    \/ uploadHandler
    \/ afterUpload
    \/ flushBatch
    \/ \E r \in ReqIds, i \in 1..Len(link.issued), tok \in {Undefined, Some("tokA")} :
          deliver(r, i, tok)
    \/ \E r \in ReqIds : createContext(r) \/ parseInput(r) \/ submit(r) \/ submitGetAll(r)
    \/ afterSubmit

SpecForm == Init /\ [][NextForm]_vars

\* The query translation layer.
NextQuery ==
    \/ \E stmt \in Statements : build(stmt)
    \/ execute
    \/ settle

SpecQuery == Init /\ [][NextQuery]_vars

\* A caller constructing Attachment objects and reading their column values.
NextAttachment ==
    \/ \E data \in UploadResponses : newAttachment(data)
    \/ \E i \in 1..MaxAttachments : readColumnValue(i)

SpecAttachment == Init /\ [][NextAttachment]_vars

\* The DevServerHMRPlugin and the events and chat messages it is given.
NextPlugin ==
    \/ \E e \in 1..MaxEvents, type \in EventTypes, sessionID \in Sessions :
          event(e, type, sessionID)
    \/ \E e \in 1..MaxEvents, exitCode \in ExitCodes : buildExited(e, exitCode)
    \/ \E e \in 1..MaxEvents, ok \in BOOLEAN : prompt(e, ok)
    \/ \E e \in 1..MaxEvents, ok \in BOOLEAN : updateAppStatus(e, ok)
    \/ chatMessage

SpecPlugin == Init /\ [][NextPlugin]_vars

\* The dev server's log streams.
NextSse ==
    \/ \E c \in 1..MaxStreams : connect(c)
    \/ \E c \in 1..MaxStreams : close(c)
    \/ \E level \in ConsoleLevels, args \in ConsoleArgs : console(level, args)

SpecSse == Init /\ [][NextSse]_vars

\* The host-validation middleware and the requests it is given.
NextHost == \E header \in HostHeaders : hostValidation(header)

SpecHost == Init /\ [][NextHost]_vars

\* The FileProtectionPlugin and the tool calls it is given.
NextTool == \E call \in ToolCalls : toolExecuteBefore(call)

SpecTool == Init /\ [][NextTool]_vars

\* The upload router.
NextUpload ==
    \/ \E batch \in Batches : ReceiveUpload(batch)
    \/ multerArray
    \/ uploadHandler

SpecUpload == Init /\ [][NextUpload]_vars

(***************************************************************************)
(* Properties.                                                             *)
(***************************************************************************)
\* The caller sent no credential: no app_access_token cookie, or an empty one.
NoCredential(r) == req[r].cookie \in {Undefined, Some("")}

\* Clients constructed for request r.
ClientsOf(r) == {i \in 1..Len(clients) : clients[i].owner = r}

\* Request r was turned away by the context factory.
Unauthorized(r) ==
    /\ req[r].st = "Failed"
    /\ req[r].resp = TrpcError("INTERNAL_SERVER_ERROR", UnauthorizedMessage)
    /\ req[r].trail = <<"Received", "Failed">>

\* Nothing ran for request r: no context, no client, no handler.
Untouched(r) ==
    /\ ~IsDefined(req[r].ctx)
    /\ ClientsOf(r) = {}
    /\ req[r].runs = 0

\* C1 as stated: every request under /api/trpc that carries no credential
\* fails with Unauthorized, builds no client and runs no handler.
C1_Original ==
    \A r \in ReqIds :
        (IsTrpcMount(req[r].url) /\ NoCredential(r)) =>
            /\ Untouched(r)
            /\ req[r].st = "Received" \/ Unauthorized(r)

\* C1 (amended): every request to a procedure path /api/trpc/<procedure>
\* that carries no credential fails with Unauthorized, builds no client and
\* runs no handler; a request to the bare mount path /api/trpc is answered
\* with the banner, also without a context, a client or a handler.
C1_NoCredentialUnauthorized ==
    \A r \in ReqIds :
        /\ (IsTrpcCall(req[r].url) /\ NoCredential(r)) =>
              /\ Untouched(r)
              /\ req[r].st = "Received" \/ Unauthorized(r)
        /\ IsTrpcRoot(req[r].url) =>
              /\ Untouched(r)
              /\ req[r].st = "Received"
                    \/ (req[r].st = "Completed" /\ req[r].resp.kind = "json")

C1_Witness ==
    \E r1, r2 \in ReqIds :
        /\ req[r1].url = ProcUrl("hello") /\ req[r1].cookie = Some("")
        /\ req[r1].cookies.parsed /\ Unauthorized(r1)
        /\ req[r2].url = ProcUrl("posts.create") /\ req[r2].cookie = Undefined
        /\ Unauthorized(r2)

\* C2: a request that carries a token gets a context whose client is bound
\* to that token and to the configured base URL and database id, never to
\* the default process token.
C2_TokenBoundContext ==
    \A r \in ReqIds :
        (IsTrpcCall(req[r].url) /\ ~NoCredential(r) /\ req[r].st # "Received") =>
            /\ IsDefined(req[r].ctx)
            /\ clients[Get(req[r].ctx)].qb =
                  [baseUrl |-> TAYLORDB_BASE_URL, baseId |-> TAYLORDB_SERVER_ID,
                   apiKey |-> req[r].cookie]
            /\ clients[Get(req[r].ctx)].qb # queryBuilder

\* C3: contexts are never cached or shared: every request that got a
\* context had its own client constructed, no two requests hold the same
\* client, and a handler runs with the context of its own request only.
C3_ContextPerRequest ==
    /\ \A r \in ReqIds :
          /\ IsDefined(req[r].ctx) =>
                /\ Get(req[r].ctx) \in 1..Len(clients)
                /\ ClientsOf(r) = {Get(req[r].ctx)}
          /\ req[r].used # {} => IsDefined(req[r].ctx) /\ req[r].used = {Get(req[r].ctx)}
    /\ \A r1, r2 \in ReqIds :
          (r1 # r2 /\ IsDefined(req[r1].ctx) /\ IsDefined(req[r2].ctx)) =>
              req[r1].ctx # req[r2].ctx
    /\ Len(clients) = Cardinality({r \in ReqIds : IsDefined(req[r].ctx)})

C3_Witness ==
    \E r1, r2 \in ReqIds :
        /\ r1 # r2
        /\ req[r1].cookie = req[r2].cookie
        /\ IsDefined(req[r1].ctx) /\ IsDefined(req[r2].ctx)
        /\ req[r1].runs = 1 /\ req[r2].runs = 1

\* Requests for procedure proc whose handler has run.
Ran(proc) ==
    {r \in ReqIds : IsTrpcCall(req[r].url) /\ ProcOf(req[r].url) = proc
                    /\ req[r].runs >= 1}

\* The input of request r violates the input contract of its procedure.
ViolatesContract(r) ==
    /\ IsTrpcCall(req[r].url)
    /\ ProcOf(req[r].url) \in Procedures
    /\ ~ValidInput(ProcOf(req[r].url), req[r].input)

\* The stores hold what handler runs put there and nothing else: one id per
\* create run and per submit run, and no record made from a rejected input.
StoresHoldOnlyHandlerWrites ==
    /\ nextId = 2 + Cardinality(Ran("posts.create"))
    /\ Len(posts) <= 1 + Cardinality(Ran("posts.create"))
    /\ submissionsNextId = 1 + Cardinality(Ran("submitUserData.submit"))
    /\ Len(submissions) = Cardinality(Ran("submitUserData.submit"))
    /\ \A i \in 1..Len(posts) :
          Len(posts[i].title) \in 1..TitleMax /\ Len(posts[i].content) >= 1
    /\ \A i \in 1..Len(submissions) :
          Len(submissions[i].name) >= 1 /\ IsEmail(submissions[i].email)

\* C4 as stated: every request whose input violates the input contract ends
\* in Failed with a bad-input error, its handler never runs and the stores
\* and id counters are unchanged.
C4_Original ==
    /\ \A r \in ReqIds :
          ViolatesContract(r) =>
              /\ req[r].runs = 0
              /\ req[r].st # "Validated"
              /\ Terminal(r) => req[r].st = "Failed" /\ req[r].resp.code = "BAD_REQUEST"
    /\ StoresHoldOnlyHandlerWrites

\* C4 (amended): a request whose input violates the input contract ends in
\* Failed before dispatch, its handler never runs and the stores and id
\* counters are unchanged; the error is the bad-input error when the
\* request's context was created, and Unauthorized when it carried no
\* credential (the context factory runs before input validation).
C4_InvalidInputRejected ==
    /\ \A r \in ReqIds :
          ViolatesContract(r) =>
              /\ req[r].runs = 0
              /\ req[r].st # "Validated"
              /\ Terminal(r) =>
                    /\ req[r].st = "Failed"
                    /\ IF IsDefined(req[r].ctx)
                       THEN /\ req[r].resp.code = "BAD_REQUEST"
                            /\ req[r].trail = <<"Received", "Context", "Failed">>
                       ELSE Unauthorized(r)
    /\ StoresHoldOnlyHandlerWrites

C4_Witness ==
    \E r1, r2 \in ReqIds :
        /\ req[r1].url = ProcUrl("posts.create") /\ req[r1].input.title = ""
        /\ IsDefined(req[r1].ctx) /\ req[r1].st = "Failed"
        /\ req[r2].url = ProcUrl("submitUserData.submit")
        /\ ~IsEmail(req[r2].input.email)
        /\ IsDefined(req[r2].ctx) /\ req[r2].st = "Failed"

\* The orders of steps a procedure call may go through.
Paths ==
    {<<"Received", "Failed">>,
     <<"Received", "Context", "Failed">>,
     <<"Received", "Context", "Validated", "Dispatched", "Failed">>,
     <<"Received", "Context", "Validated", "Dispatched", "Completed">>}

IsPrefix(t, p) == Len(t) <= Len(p) /\ SubSeq(p, 1, Len(t)) = t

\* C5: a procedure call goes through context creation, input validation and
\* dispatch in that order and ends in exactly one outcome, Completed with a
\* result or Failed with an error the caller sees; a handler that throws
\* yields Failed; a call that has not ended can always take its next step.
C5_StepsInOrder ==
    \A r \in ReqIds :
        IsTrpcCall(req[r].url) =>
            /\ \E p \in Paths : IsPrefix(req[r].trail, p)
            /\ Terminal(r) <=> req[r].trail \in Paths
            /\ req[r].st = "Completed" =>
                  req[r].resp.kind = "result" /\ req[r].runs = 1
            /\ req[r].st = "Failed" =>
                  req[r].resp.kind = "error" /\ req[r].resp.message # ""
            /\ (req[r].runs >= 1 /\ req[r].resp.kind = "error") => req[r].st = "Failed"
            /\ ~Terminal(r) =>
                  /\ req[r].resp = NoResp
                  /\ ENABLED (createContext(r) \/ parseInput(r) \/ Handlers(r))

C5_Witness ==
    \E r1, r2 \in ReqIds :
        /\ req[r1].url = ProcUrl("posts.delete") /\ req[r1].st = "Failed"
        /\ req[r1].resp = Thrown("Post not found")
        /\ req[r2].st = "Completed" /\ req[r2].url = ProcUrl("posts.create")

\* C6: no mutation is retried: the handler of a mutation request runs at
\* most once, whether it returns or throws, and every create or submit run
\* adds exactly one record, so a request adds at most one.
C6_NoMutationRetry ==
    /\ \A r \in ReqIds :
          (IsTrpcCall(req[r].url) /\ ProcOf(req[r].url) \in Mutations) =>
              /\ req[r].runs <= 1
              /\ Terminal(r) /\ Len(req[r].trail) = 5 => req[r].runs = 1
    /\ nextId = 2 + Cardinality(Ran("posts.create"))
    /\ Len(posts) <= 1 + Cardinality(Ran("posts.create"))
    /\ Len(submissions) = Cardinality(Ran("submitUserData.submit"))

C6_Witness ==
    \E r1, r2 \in ReqIds :
        /\ req[r1].url = ProcUrl("posts.delete") /\ req[r1].st = "Failed"
        /\ req[r1].runs = 1
        /\ req[r2].url = ProcUrl("posts.create") /\ req[r2].st = "Completed"
        /\ req[r2].runs = 1 /\ Len(posts) = 2

\* The upload request has been answered.
UploadAnswered == up.st \in {"Completed", "Failed"}

\* The batch breaks the upload policy: more than 10 files, or a file over 10 MB.
OverLimit(batch) ==
    \/ Len(batch) > filesLimit
    \/ \E k \in 1..Len(batch) : batch[k].size > fileSizeLimit

\* C7: a batch of more than 10 files, or with a file over 10 MB, is rejected
\* as a whole with an error: the handler does not run, no file of the batch
\* is accepted and the answer carries no file metadata.
C7_OverLimitBatchRejected ==
    OverLimit(up.batch) =>
        /\ up.runs = 0
        /\ up.files = <<>>
        /\ up.st \in {"Received", "Failed"}
        /\ up.st = "Failed" =>
              /\ up.resp.kind = "error"
              /\ up.resp.status >= 400
              /\ up.resp.code \in {"LIMIT_FILE_COUNT", "LIMIT_UNEXPECTED_FILE",
                                 "LIMIT_FILE_SIZE"}

C7_Witness ==
    /\ up.st = "Failed"
    /\ Len(up.batch) = filesLimit + 1
    /\ \A k \in 1..Len(up.batch) : up.batch[k].size <= fileSizeLimit
    /\ up.resp.kind = "error"

\* C8: an accepted batch of n files (1 <= n <= 10, each at most 10 MB) is
\* answered with exactly n entries, entry i giving the original name, mime
\* type and size of input file i.
C8_OneEntryPerFileInOrder ==
    (~OverLimit(up.batch) /\ Len(up.batch) >= 1 /\ UploadAnswered) =>
        /\ up.st = "Completed"
        /\ up.resp.kind = "json" /\ up.resp.status = 200 /\ up.resp.body.success
        /\ LET entries == up.resp.body.data.files IN
              /\ Len(entries) = Len(up.batch)
              /\ \A i \in 1..Len(up.batch) :
                    /\ entries[i].originalName = up.batch[i].originalname
                    /\ entries[i].mimeType = up.batch[i].mimetype
                    /\ entries[i].size = up.batch[i].size

C8_Witness ==
    /\ up.st = "Completed"
    /\ Len(up.batch) = filesLimit
    /\ \E k \in 1..Len(up.batch) : up.batch[k].size = fileSizeLimit
    /\ Len(up.resp.body.data.files) = filesLimit

\* The sum of the sizes of the entries from position i on.
RECURSIVE EntryTotal(_, _)
EntryTotal(entries, i) ==
    IF i > Len(entries) THEN 0 ELSE entries[i].size + EntryTotal(entries, i + 1)

\* C9: in a successful upload answer filesCount is the number of entries
\* and totalSize is the formatted sum of the sizes of those entries.
C9_CountAndTotalMatchEntries ==
    up.st = "Completed" =>
        LET data == up.resp.body.data IN
            /\ data.filesCount = Len(data.files)
            /\ data.totalSize = formatFileSize(EntryTotal(data.files, 1))

C9_Witness ==
    /\ up.st = "Completed"
    /\ up.resp.body.data.filesCount >= 3
    /\ EntryTotal(up.resp.body.data.files, 1) > fileSizeLimit
    /\ up.resp.body.data.totalSize[5] = "MB"

\* C10: the health route answers status "ok" with a timestamp whether or
\* not the request carries a credential, and creates no context and no
\* client.
C10_HealthNeedsNoCredential ==
    \A r \in ReqIds :
        IsHealth(req[r].url) =>
            /\ Untouched(r)
            /\ req[r].st = "Received" => ENABLED Health(r)
            /\ req[r].st # "Received" =>
                  /\ req[r].st = "Completed"
                  /\ req[r].trail = <<"Received", "Completed">>
                  /\ req[r].resp.kind = "json" /\ req[r].resp.status = 200
                  /\ req[r].resp.body.status = "ok"
                  /\ req[r].resp.body.timestamp \in 1..(clock - 1)

C10_Witness ==
    \E r1, r2 \in ReqIds :
        /\ IsHealth(req[r1].url) /\ req[r1].st = "Completed" /\ NoCredential(r1)
        /\ IsHealth(req[r2].url) /\ req[r2].st = "Completed"
        /\ req[r2].cookie \in {Some(t) : t \in Tokens}

(***************************************************************************)
(* The entity routers: lookups by id, shared state.                        *)
(***************************************************************************)
\* The handler of request r is about to run and no post has the id it asks for.
MissesPost(r, proc) == Ready(r, proc) /\ findIndex(posts, req[r].parsed.id) = 0

\* The step taken is the handler run of request r.
HandlerRan(r) == req'[r].runs = req[r].runs + 1

\* C11: getById called with an id that no record has returns an empty
\* (undefined) result and does not fail with an error.
C11_GetByIdMissingIsEmpty ==
    [][\A r \in ReqIds :
          (MissesPost(r, "posts.getById") /\ HandlerRan(r)) =>
              /\ req'[r].st = "Completed"
              /\ req'[r].resp.kind = "result"
              /\ req'[r].resp.data = Undefined]_vars

\* C12: an update or a publish called with an id that no record has fails
\* with the not-found error and leaves the store as it was: no record is
\* created or modified and the id counter is not advanced.
C12_UpdateMissingNotFound ==
    [][\A r \in ReqIds :
          ((MissesPost(r, "posts.update") \/ MissesPost(r, "posts.publish"))
              /\ HandlerRan(r)) =>
              /\ req'[r].st = "Failed"
              /\ req'[r].resp = Thrown("Post not found")
              /\ posts' = posts
              /\ nextId' = nextId]_vars

C12_Witness ==
    \E r1, r2 \in ReqIds :
        /\ req[r1].url = ProcUrl("posts.update") /\ req[r1].input.id = 2
        /\ req[r1].runs = 1 /\ req[r1].resp = Thrown("Post not found")
        /\ req[r2].url = ProcUrl("posts.publish") /\ req[r2].input.id = 2
        /\ req[r2].runs = 1 /\ req[r2].resp = Thrown("Post not found")
        /\ Len(posts) = 1 /\ posts[1].id = 1 /\ nextId = 2

\* What the caller of request r got, the time stamp of the record aside.
Outcome(r) ==
    IF req[r].resp.kind = "result"
    THEN Result([req[r].resp.data EXCEPT !.createdAt = 0])
    ELSE req[r].resp

\* C19: no mutable state is shared across requests: two requests with the
\* same procedure, input and credential get the same result whatever was
\* handled before them.
C19_NoSharedMutableState ==
    \A r1, r2 \in ReqIds :
        (/\ req[r1].runs = 1 /\ req[r2].runs = 1
         /\ req[r1].url = req[r2].url
         /\ req[r1].input = req[r2].input
         /\ req[r1].cookies = req[r2].cookies) =>
            Outcome(r1) = Outcome(r2)

\* The handler of procedure proc runs for request r in this step.
Runs(r, proc) == Ready(r, proc) /\ HandlerRan(r)

\* The posts with the given id.
WithId(ps, id) == {i \in 1..Len(ps) : ps[i].id = id}

\* The ids of the stored posts are pairwise distinct and below nextId, and
\* so is the id of every post a caller was answered with.
IdsBelowNextId ==
    /\ \A i, j \in 1..Len(posts) : posts[i].id = posts[j].id => i = j
    /\ \A i \in 1..Len(posts) : posts[i].id < nextId
    /\ \A r \in ReqIds :
          (req[r].runs = 1 /\ req[r].resp.kind = "result") => req[r].resp.data.id < nextId

\* nextId never decreases, and a post that enters the store gets an id
\* that was not below nextId before.
IdsFresh ==
    /\ nextId' >= nextId
    /\ \A j \in 1..Len(posts') :
          WithId(posts, posts'[j].id) = {} =>
              posts'[j].id >= nextId /\ posts'[j].id < nextId'

\* C23: after any sequence of create, update, publish and delete calls the
\* stored posts have pairwise distinct ids and nextId is greater than every
\* id ever issued; a new post gets an id not issued before, so never the id
\* of a deleted post.
C23_IdsNeverReused == [](IdsBelowNextId) /\ [][IdsFresh]_vars

C23_Witness ==
    \E r1, r2 \in ReqIds :
        /\ req[r1].url = ProcUrl("posts.delete") /\ req[r1].st = "Completed"
        /\ req[r1].resp.data.id = 1
        /\ req[r2].url = ProcUrl("posts.create") /\ req[r2].st = "Completed"
        /\ req[r2].resp.data.id = 2
        /\ Len(posts) = 1 /\ posts[1].id = 2 /\ nextId = 3

C25_UpdateSetsSuppliedFields ==
    [][\A r \in ReqIds :
          (Runs(r, "posts.update") /\ WithId(posts, req[r].parsed.id) # {}) =>
              LET input == req[r].parsed IN
              /\ Len(posts') = Len(posts)
              /\ \A i \in 1..Len(posts) :
                    IF posts[i].id # input.id
                    THEN posts'[i] = posts[i]
                    ELSE /\ posts'[i].id = posts[i].id
                         /\ posts'[i].authorId = posts[i].authorId
                         /\ posts'[i].createdAt = posts[i].createdAt
                         /\ posts'[i].title =
                               IF IsDefined(input.title) THEN Get(input.title)
                               ELSE posts[i].title
                         /\ posts'[i].content =
                               IF IsDefined(input.content) THEN Get(input.content)
                               ELSE posts[i].content
                         /\ posts'[i].published =
                               IF IsDefined(input.published) THEN Get(input.published)
                               ELSE posts[i].published
                         /\ req'[r].resp = Result(posts'[i])
              /\ req'[r].st = "Completed"
              /\ nextId' = nextId]_vars

C25_Witness ==
    \E r1, r2 \in ReqIds :
        /\ req[r1].url = ProcUrl("posts.create") /\ req[r1].st = "Completed"
        /\ req[r2].url = ProcUrl("posts.update") /\ req[r2].st = "Completed"
        /\ req[r2].parsed.id = 1
        /\ Len(posts) = 2
        /\ posts[1] = [id |-> 1, title |-> "New Title",
                       content |-> "This is my first post!", authorId |-> 1,
                       published |-> FALSE, createdAt |-> 0]
        /\ posts[2] = req[r1].resp.data

\* The k-th stored submission has id k.
SubmissionIdsCount == \A k \in 1..Len(submissions) : submissions[k].id = k

\* Stored submissions stay as they are and where they are; submit appends
\* the submission it answers with, built from its input; getAll answers
\* with the whole array in its order; nothing else touches the array.
SubmissionsAppendOnly ==
    /\ Len(submissions') >= Len(submissions)
    /\ \A k \in 1..Len(submissions) : submissions'[k] = submissions[k]
    /\ \A r \in ReqIds :
          /\ Runs(r, "submitUserData.submit") =>
                /\ Len(submissions') = Len(submissions) + 1
                /\ req'[r].resp = Result(submissions'[Len(submissions')])
                /\ submissions'[Len(submissions')].id = Len(submissions) + 1
                /\ submissions'[Len(submissions')].name = req[r].parsed.name
                /\ submissions'[Len(submissions')].email = req[r].parsed.email
                /\ submissions'[Len(submissions')].files = req[r].parsed.files
          /\ Runs(r, "submitUserData.getAll") =>
                /\ req'[r].resp = Result(submissions)
                /\ submissions' = submissions
    /\ (\A r \in ReqIds : ~Runs(r, "submitUserData.submit")) => submissions' = submissions

SentWith(i) ==
    {k \in 1..Len(link.sent) : \E j \in 1..Len(link.sent[k].ops) : link.sent[k].ops[j] = i}

Pending(i) == \E j \in 1..Len(link.pending) : link.pending[j] = i

\* C13: a FormData operation goes through the non-batching link, alone in
\* its request, and never waits in or travels with a batch; every other
\* operation goes through the batching link; so no batch holds a FormData
\* operation.
C13_FormDataNeverBatched ==
    /\ \A i \in 1..Len(link.issued) :
          IF link.issued[i].formData
          THEN /\ ~Pending(i)
               /\ Cardinality(SentWith(i)) = 1
               /\ \A k \in SentWith(i) :
                     link.sent[k] = [via |-> "httpLink", ops |-> <<i>>]
          ELSE /\ Pending(i) \/ Cardinality(SentWith(i)) = 1
               /\ ~(Pending(i) /\ SentWith(i) # {})
               /\ \A k \in SentWith(i) : link.sent[k].via = "httpBatchLink"
    /\ \A k \in 1..Len(link.sent) :
          link.sent[k].via = "httpBatchLink" =>
              \A j \in 1..Len(link.sent[k].ops) : ~link.issued[link.sent[k].ops[j]].formData

C13_Witness ==
    /\ link.build = "formData"
    /\ Len(link.issued) = 3
    /\ link.issued[2].formData
    /\ link.pending = <<>>
    /\ \E k \in 1..Len(link.sent) :
          link.sent[k] = [via |-> "httpBatchLink", ops |-> <<1, 3>>]

(***************************************************************************)
(* The form: upload first, then the typed submit.                          *)
(***************************************************************************)
\* The submit operations issued so far.
SubmitOps ==
    {i \in 1..Len(link.issued) : link.issued[i].path = "submitUserData.submit"}

\* C14: a handleSubmit call that took files issues the submit mutation only
\* after its upload succeeded, with exactly the entries that upload
\* returned (one per file taken, in order); when the upload failed it issues
\* no submit mutation and reports the error; and a submission is stored
\* only for a submit mutation that was issued, with the files it carried.
C14_SubmitAfterUpload ==
    /\ \A k \in 1..Len(form.runs) :
          LET run == form.runs[k] IN
          /\ (run.files # <<>> /\ run.op # 0) =>
                /\ uploadOk(run.upload)
                /\ link.issued[run.op].path = "submitUserData.submit"
                /\ link.issued[run.op].input.files =
                       fileRefs(run.upload.body.data.files)
                /\ Len(link.issued[run.op].input.files) = Len(run.files)
                /\ \A j \in 1..Len(run.files) :
                      /\ link.issued[run.op].input.files[j].originalName = run.files[j].name
                      /\ link.issued[run.op].input.files[j].size = run.files[j].size
          /\ (run.files # <<>> /\ ~uploadOk(run.upload)) =>
                /\ run.op = 0
                /\ (k < Len(form.runs) \/ form.st # "Uploading") => run.upload # NoResp
          /\ (k = Len(form.runs) /\ run.files # <<>> /\ run.upload # NoResp
                  /\ ~uploadOk(run.upload)) =>
                form.st = "Editing" /\ IsDefined(form.error)
    /\ Cardinality(SubmitOps) = Cardinality({k \in 1..Len(form.runs) : form.runs[k].op # 0})
    /\ \A k \in 1..Len(form.runs) : form.runs[k].op # 0 => form.runs[k].op \in SubmitOps
    /\ Len(submissions) <= Cardinality(SubmitOps)
    /\ \A n \in 1..Len(submissions) :
          \E i \in SubmitOps :
              /\ \E d \in form.delivered : d[1] = i /\ req[d[2]].resp = Result(submissions[n])
              /\ submissions[n].files = link.issued[i].input.files

C14_Witness ==
    /\ Len(form.runs) = 2
    /\ Len(form.runs[1].files) = 2 /\ form.runs[1].op # 0
    /\ Len(submissions) = 1 /\ Len(submissions[1].files) = 2
    /\ submissions[1].files[2].size = fileSizeLimit
    /\ form.runs[2].files # <<>> /\ form.runs[2].upload.kind = "error"
    /\ form.runs[2].op = 0 /\ form.st = "Editing"

(***************************************************************************)
(* The query translation layer: filters, values, broad-impact operations.  *)
(***************************************************************************)
\* The statement at hand passed validation.
Accepted == qb.st \in {"Built", "Done"}

\* The statement at hand was turned away and nothing was done for it.
RejectedUnexecuted ==
    qb.st = "Rejected" /\ ~qb.called /\ qb.rows = qb.before /\ IsDefined(qb.error)

\* The comparison predicates on a date column of the statement at hand.
DateComparisons ==
    {k \in 1..Len(qb.stmt.where) :
        qb.stmt.where[k].kind = "date" /\ qb.stmt.where[k].op \in Comparisons}

\* ["exactDay" | "exactTimestamp", string] or ["daysAgo" | "daysFromNow", number]
TaggedTuple(v) ==
    /\ DOMAIN v = {"arr"} /\ Len(v.arr) = 2 /\ DOMAIN v.arr[1] = {"str"}
    /\ \/ v.arr[1].str \in {"exactDay", "exactTimestamp"} /\ DOMAIN v.arr[2] = {"str"}
       \/ v.arr[1].str \in {"daysAgo", "daysFromNow"} /\ DOMAIN v.arr[2] = {"num"}

RelativeDay(v) ==
    /\ DOMAIN v = {"str"}
    /\ v.str \in {"today", "tomorrow", "yesterday", "oneWeekAgo", "oneWeekFromNow",
                   "oneMonthAgo", "oneMonthFromNow"}

DeclaredOperators(kind) ==
    CASE kind = "date" -> Comparisons \cup {"isWithIn", "isEmpty", "isNotEmpty"}
      [] kind = "text" ->
            {"=", "!=", "caseEqual", "hasAnyOf", "contains", "startsWith", "endsWith",
             "doesNotContain", "isEmpty", "isNotEmpty"}
      [] kind = "number" ->
            Comparisons \cup {"hasAnyOf", "hasNoneOf", "isEmpty", "isNotEmpty"}
      [] kind = "checkbox" -> {"="}
      [] OTHER ->
            {"hasAnyOf", "hasAllOf", "isExactly", "=", "hasNoneOf", "contains",
             "doesNotContain", "isEmpty", "isNotEmpty"}

\* C16: a statement is accepted only if the operator of each of its
\* predicates is one its column kind declares; a statement with any other
\* operator is rejected and the external store is not called for it.
C16_OperatorDeclaredForKind ==
    \A k \in 1..Len(qb.stmt.where) :
        LET p == qb.stmt.where[k] IN
        /\ Accepted => p.op \in DeclaredOperators(p.kind)
        /\ p.op \notin DeclaredOperators(p.kind) => RejectedUnexecuted

C16_Witness ==
    /\ qb.st = "Rejected" /\ ~qb.called
    /\ qb.stmt.where = <<Pred("checkbox", "!=", Num(7))>>

\* The two forms of a single-select value for option o.
Forms(o) == {Str(o), Arr(<<Str(o)>>)}

\* The table after a write of option o by the statement at hand.
Written(o) ==
    IF qb.stmt.op = "insert"
    THEN Append(qb.before, [status |-> o])
    ELSE [i \in 1..Len(qb.before) |->
            IF matches(qb.before[i], qb.stmt.where) THEN [status |-> o] ELSE qb.before[i]]

C18_BroadImpactFlagged ==
    /\ (qb.stmt.op \in {"update", "delete"} /\ qb.stmt.where = <<>>
          /\ (qb.stmt.op = "update" =>
                 \E o \in VmStatusOptions : Get(qb.stmt.status) \in Forms(o))) =>
            /\ Accepted
            /\ qb.st = "Built" => ENABLED execute
            /\ qb.st = "Done" =>
                  /\ qb.flagged /\ qb.called
                  /\ qb.stmt.op = "delete" => qb.rows = <<>>
                  /\ qb.stmt.op = "update" =>
                        /\ Len(qb.rows) = Len(qb.before)
                        /\ \A i \in 1..Len(qb.rows) :
                              Str(qb.rows[i].status) = Get(qb.stmt.status)
                              \/ Arr(<<Str(qb.rows[i].status)>>) = Get(qb.stmt.status)
    /\ qb.stmt.where # <<>> => ~qb.flagged
    /\ qb.stmt.op \notin {"update", "delete"} => ~qb.flagged

C18_Witness ==
    /\ qb.st = "Done" /\ qb.flagged
    /\ qb.stmt.op = "delete" /\ qb.stmt.where = <<>>
    /\ Len(qb.before) = 3 /\ qb.rows = <<>>

(***************************************************************************)
(* Attachment references.                                                  *)
(***************************************************************************)
\* Every value read so far is the derived metadata of its object, and two
\* reads of one object gave the same value.
ReadsAreDerived ==
    /\ \A k \in 1..Len(att.returned) :
          LET a == att.objects[att.returned[k].of] IN
          /\ att.returned[k].value.url = a.fileInformation.path
          /\ att.returned[k].value.fileType = a.fileInformation.mimetype
          /\ att.returned[k].value.size = a.fileInformation.size
          /\ DOMAIN att.returned[k].value = {"url", "fileType", "size"}
    /\ \A k, l \in 1..Len(att.returned) :
          att.returned[k].of = att.returned[l].of =>
              att.returned[k].value = att.returned[l].value

\* No step changes an object that exists.
ObjectsKept ==
    /\ Len(att'.objects) >= Len(att.objects)
    /\ \A i \in 1..Len(att.objects) : att'.objects[i] = att.objects[i]

\* C20: an Attachment is never changed after its construction, by
\* toColumnValue or otherwise; toColumnValue returns url =
\* fileInformation.path, fileType = fileInformation.mimetype and size =
\* fileInformation.size of the object, and repeated calls return the same
\* value.
C20_AttachmentImmutable == [](ReadsAreDerived) /\ [][ObjectsKept]_vars

C20_Witness ==
    /\ Len(att.objects) = 2 /\ Len(att.returned) = 2
    /\ att.returned[1].of = 1 /\ att.returned[2].of = 1
    /\ att.returned[1].value = [url |-> "/files/f2", fileType |-> "text/plain", size |-> 5]
    /\ att.objects[2].fileInformation.path = "/files/f1"

(***************************************************************************)
(* DevServerHMRPlugin.                                                     *)
(***************************************************************************)
\* Event e leaves its build in this step, and the build failed.
BuildFailedNow(e) ==
    /\ hmr.ev[e].st = "Building"
    /\ hmr'.ev[e].st # "Building"
    /\ hmr'.ev[e].exitCode # <<0>>

\* Event e asks the session to fix the build in this step.
PromptsNow(e) == hmr.ev[e].st = "Prompting" /\ hmr'.ev[e].st # "Prompting"

\* C21: the failure counter increases by one with each failed build (the
\* first failure sets it), and a failed build that takes it above 3 makes
\* the plugin report Errored; from then on, with the counter above 3, no
\* session is prompted.
C21_RetriesBounded ==
    [][\A e \in 1..MaxEvents :
         /\ BuildFailedNow(e) =>
               /\ hmr.tries # <<>> => hmr'.tries = <<hmr.tries[1] + 1>>
               /\ hmr'.tries # <<>>
               /\ hmr'.tries[1] > 3 => hmr'.ev[e].st = "Errored"
         /\ PromptsNow(e) => hmr.tries # <<>> /\ hmr.tries[1] <= 3]_vars

\* C22: Active is reported only for a session.idle event whose build
\* exited with code 0, and an event of another type starts no build and
\* reports nothing.
C22_ActiveOnlyAfterGoodBuild ==
    \A k \in 1..Len(hmr.sent) :
        LET x == hmr.sent[k] IN
        /\ (x.kind = "put" /\ x.status = "Active") =>
              /\ x.ev \in 1..MaxEvents
              /\ hmr.ev[x.ev].type = "session.idle"
              /\ hmr.ev[x.ev].exitCode = <<0>>
        /\ x.ev \in 1..MaxEvents => hmr.ev[x.ev].type = "session.idle"

(***************************************************************************)
(* The dev server's log streams.                                           *)
(***************************************************************************)
\* The streams of requests that connected and have not closed.
Connected == {c \in 1..MaxStreams : sse.conn[c] = "Open"}

\* The streams written to in this step.
WrittenNow == {c \in 1..MaxStreams : sse'.written[c] # sse.written[c]}

\* A step writes one message, the same one, to each stream in the set as
\* the message is sent (a connecting stream is in it, a closing one is
\* not), and to no other stream; a closed stream stays closed and is not
\* written to.
WritesToClients ==
    /\ WrittenNow \in {{}, sse'.clients}
    /\ sse'.logs # sse.logs => (WrittenNow = sse.clients /\ sse'.clients = sse.clients)
    /\ \A c \in WrittenNow : Len(sse'.written[c]) = Len(sse.written[c]) + 1
    /\ \A c, d \in WrittenNow :
          sse'.written[c][Len(sse'.written[c])] = sse'.written[d][Len(sse'.written[d])]
    /\ \A c \in 1..MaxStreams :
          sse.conn[c] = "Closed" =>
              sse'.conn[c] = "Closed" /\ sse'.written[c] = sse.written[c]
    /\ \A c \in 1..MaxStreams :
          sse'.conn[c] = "Closed" => sse'.written[c] = sse.written[c]

\* C27: a stream is in `clients` exactly while its request is connected
\* and not closed; each message is written to exactly the streams in
\* `clients` as it is sent; no stream is written to after its request
\* closed.
C27_StreamsFollowConnections == [](sse.clients = Connected) /\ [][WritesToClients]_vars

C27_Witness ==
    /\ sse.conn = <<"Closed", "Open">>
    /\ sse.clients = {2}
    /\ Len(sse.written[1]) = 3 /\ Len(sse.written[2]) = 3
    /\ sse.written[1][2].message = <<"build", " ", "failed">>
    /\ sse.written[2][2].message = <<"Client disconnected from SSE logs">>
    /\ sse.written[2][3] = [level |-> "warn", message |-> <<"ready">>]

(***************************************************************************)
(* Host validation.                                                        *)
(***************************************************************************)
\* The header names localhost, 127.0.0.1 or a host under
\* .develop.taylordb.ai, with or without a port.
NamesAllowedHost(header) ==
    /\ header # <<>>
    /\ LET h == header[1]
           n == IF \E k \in 1..Len(h) : h[k] = ":"
                THEN (CHOOSE k \in 1..Len(h) : h[k] = ":" /\ \A j \in 1..(k - 1) : h[j] # ":") - 1
                ELSE Len(h)
           host == [k \in 1..n |-> h[k]]
       IN \/ host = <<"localhost">>
          \/ host = <<"127", ".", "0", ".", "0", ".", "1">>
          \/ /\ n > 6
             /\ [k \in 1..6 |-> host[n - 6 + k]] = <<".", "develop", ".", "taylordb", ".", "ai">>
             /\ host[n - 6] # "."

\* C28: a request is passed to the next handler only when its Host header,
\* its port aside, is localhost, 127.0.0.1 or a host under
\* .develop.taylordb.ai; any other request, and one without a Host header,
\* gets 403 and is not passed on.
C28_OnlyAllowedHostsPass ==
    \A k \in 1..Len(vite) :
        /\ vite[k].next => NamesAllowedHost(vite[k].header)
        /\ ~NamesAllowedHost(vite[k].header) => vite[k].status = <<403>> /\ ~vite[k].next

(***************************************************************************)
(* File protection.                                                        *)
(***************************************************************************)
\* The path is one of the protected files, or a .ts file directly in
\* src/lib whose name does not start with a dot.
Protected(path) ==
    \/ path \in {<<".", "env">>, <<".", "env", ".", "local">>,
                  <<".", "env", ".", "development">>, <<".", "env", ".", "production">>,
                  <<"opencode", ".", "json">>}
    \/ /\ Len(path) >= 7
       /\ SubSeq(path, 1, 4) = <<"src", "/", "lib", "/">>
       /\ SubSeq(path, Len(path) - 1, Len(path)) = <<".", "ts">>
       /\ path[5] # "."
       /\ \A k \in 5..Len(path) : path[k] # "/"

\* C29: an edit of a path that matches a protected pattern is rejected
\* with an error and the tool does not execute; every other call (another
\* tool, or an edit of a path that matches no pattern) proceeds.
C29_OnlyProtectedEditsRejected ==
    \A k \in 1..Len(tool) :
        LET c == tool[k].call IN
        /\ tool[k].thrown <=> (c.tool = "edit" /\ Protected(c.filePath[1]))
        /\ tool[k].executed <=> ~tool[k].thrown

C29_Witness ==
    /\ Len(tool) = 2
    /\ tool[1].call = [tool |-> "edit",
                       filePath |-> <<<<"src", "/", "lib", "/", "utils", ".", "ts">>>>]
    /\ tool[1].thrown /\ ~tool[1].executed
    /\ tool[2].call = [tool |-> "write", filePath |-> <<<<".", "env">>>>]
    /\ tool[2].executed

====
